---------------------------- MODULE Spec2Model ----------------------------
(***************************************************************************)
(* Level Manager (src/level_manager.py): the cached level list, the hotkey *)
(* map, the group map and the operations that keep them consistent while   *)
(* the host's tree is rescanned.                                            *)
(*                                                                         *)
(* Python dicts keep insertion order and the code iterates them, so a dict *)
(* is modelled as a sequence of entries with distinct keys.  Level numbers *)
(* are the digit strings the host reports; they are modelled as the        *)
(* integers they denote.                                                    *)
(***************************************************************************)
EXTENDS Integers, Sequences, FiniteSets, TLC

VARIABLES
    levels,           \* self.levels: the last scan, a sequence of levels
    hotkeys,          \* self.hotkeys: ordered dict  number -> hotkey
    groups,           \* self.groups: ordered dict  name -> {levels, hotkey}
    settings,         \* the settings file: what the last save wrote
    old_levels,       \* _reconcile_numbers' argument (a local of the rescan)
    remap,            \* _reconcile_numbers' local remap, in dict order
    pc,               \* position of the code that runs _reconcile_numbers
    wk,               \* the other locals of the background rescan
    ret,              \* _reconcile_numbers' return value
    pre,              \* hotkeys/groups/settings (and rows) before the call under test
    once,             \* hotkeys/groups after the first reconciliation
    tree,             \* self.tree is set (a connection to the host's tree exists)
    treeview,         \* the rows of self.treeview, in display order
    status,           \* the status bar: "Conflict", "stale" or "info" (any other text)
    scans,            \* how many scans of the host's tree have run
    recording_target, \* self._recording_target
    recording_mods,   \* self._recording_mods
    listener,         \* self._listener is set: the global hotkey listener runs
    rec_listener,     \* self._rec_listener is set
    rec_threads,      \* recording listeners that are running
    afterq,           \* callbacks posted with root.after(0, ...), oldest first
    rescanning,       \* self._rescanning
    health_poll_id,   \* self._health_poll_id is set: it names a health-check timer
    timers,           \* the health-check timers of root.after that are pending
    probing,          \* health probe threads that are running
    call,             \* a call of a function on drawn arguments (hotkey_matches,
                      \* toggle_visibility, connect_levels_panel, scan_levels): the
                      \* arguments and the result
    selection,        \* the rows selected for a call of _create_group on drawn inputs
    held,             \* the modifiers for which _ctrl_held, _alt_held, _shift_held are set
    press,            \* the locals of _on_hotkey_press on the listener thread
    outcome,          \* what the last toggle run from the callback queue did
    down              \* the modifier keys of the keyboard that are down, by name

dataVars == <<levels, hotkeys, groups, settings>>
funVars  == <<ret, pre, once>>
workVars == <<old_levels, remap, pc, wk>>
uiVars   == <<tree, treeview, status, scans>>
recVars  == <<recording_target, recording_mods, listener, rec_listener, rec_threads>>
bgVars   == <<afterq, rescanning, health_poll_id, timers, probing>>
routerVars == <<held, press, outcome, down>>

vars == <<levels, hotkeys, groups, settings, old_levels, remap, pc, wk, ret, pre, once,
          tree, treeview, status, scans, recording_target, recording_mods, listener,
          rec_listener, rec_threads, afterq, rescanning, health_poll_id, timers, probing,
          call, selection, held, press, outcome, down>>

----------------------------------------------------------------------------
(* Bounds of the model *)

MaxNum == 3        \* level numbers are 1..MaxNum
MaxLevels == 2     \* items materialised in one scan
MaxScans == 2      \* scans of the host's tree in one run
MaxAppNum == 2     \* level numbers the host shows the running application
MaxGroupNum == 4   \* level numbers in the runs that only group and rescan
MaxGroupLevels == 1 \* items materialised in one scan of those runs
MaxRecThreads == 2 \* recording listeners alive at once
MaxPending == 2    \* threads and posted callbacks that have yet to act
MaxWideNum == 6    \* levels of the long list with repeated names
MaxChildren == 2   \* children of a level's tree item
MaxRecPending == 3 \* threads and callbacks pending when a recording is started
MaxWindows == 2    \* child windows of the host's main window
MaxItems == 2      \* items of the level tree handed to scan_levels
MaxFields == 3     \* children of all items of that tree together

Nums == 1..MaxNum
Names == {"Body", "Top"}
Mods == {"ctrl", "alt", "shift"}

(* A stored hotkey: {"key": trigger, "modifiers": sorted list}.  A sorted  *)
(* list without repetitions is the set of its elements.                     *)
HK1 == [key |-> "a", modifiers |-> {"ctrl"}]
HK2 == [key |-> "a", modifiers |-> {}]
HKs == {HK1, HK2}

(* Python's None in a place that otherwise holds a hotkey. *)
None == [key |-> "None", modifiers |-> {}]

----------------------------------------------------------------------------
(* Sequence helpers *)

Range(s) == {s[i] : i \in 1..Len(s)}

Injective(s) == \A i, j \in 1..Len(s) : s[i] = s[j] => i = j

SeqsUpTo(S, n) == UNION {[1..k -> S] : k \in 0..n}

(* An ordered dict is a sequence of entries [k |-> key, v |-> value] with   *)
(* distinct keys, in insertion order.                                       *)
Has(d, key) == \E i \in 1..Len(d) : d[i].k = key

Get(d, key) == d[CHOOSE i \in 1..Len(d) : d[i].k = key].v

Keys(d) == {d[i].k : i \in 1..Len(d)}

\* del d[key] / d.pop(key)
Del(d, key) == SelectSeq(d, LAMBDA e : e.k # key)

\* d[key] = val : an existing key keeps its place, a new key is appended
Put(d, key, val) ==
    IF Has(d, key)
    THEN [i \in 1..Len(d) |-> IF d[i].k = key THEN [k |-> key, v |-> val] ELSE d[i]]
    ELSE Append(d, [k |-> key, v |-> val])

----------------------------------------------------------------------------
(* _reconcile_numbers *)

NameCount(lvls, nm) == Cardinality({i \in 1..Len(lvls) : lvls[i].name = nm})

\* name -> number for the names that occur once, in list order
UniqueNameMapLast(lvls) ==
    LET F[i \in 0..Len(lvls)] ==
            IF i = 0 THEN <<>> ELSE Put(F[i-1], lvls[i].name, lvls[i].number)
    IN  F[Len(lvls)]

_unique_name_map(lvls) ==
    LET F[i \in 0..Len(lvls)] ==
            IF i = 0 THEN <<>>
            ELSE IF NameCount(lvls, lvls[i].name) = 1
                 THEN Put(F[i-1], lvls[i].name, lvls[i].number)
                 ELSE F[i-1]
    IN  F[Len(lvls)]

\* old number -> new number for the names in both maps whose number differs
ComputeRemap(old, new) ==
    LET old_map == _unique_name_map(old)
        new_map == _unique_name_map(new)
        F[i \in 0..Len(old_map)] ==
            IF i = 0 THEN <<>>
            ELSE LET name    == old_map[i].k
                     old_num == old_map[i].v
                 IN  IF Has(new_map, name) /\ Get(new_map, name) # old_num
                     THEN Put(F[i-1], old_num, Get(new_map, name))
                     ELSE F[i-1]
    IN  F[Len(old_map)]

\* one round of the loop over remap.items(): hotkeys[new] = hotkeys.pop(old)
RemapHotkeyEntry(hks, e) ==
    IF Has(hks, e.k) THEN Put(Del(hks, e.k), e.v, Get(hks, e.k)) ELSE hks

RemapHotkeys(hks, rm) ==
    LET F[i \in 0..Len(rm)] ==
            IF i = 0 THEN hks ELSE RemapHotkeyEntry(F[i-1], rm[i])
    IN  F[Len(rm)]

\* grp["levels"] = [remap.get(n, n) for n in members]
RemapMembers(members, rm) ==
    [j \in 1..Len(members) |->
        IF Has(rm, members[j]) THEN Get(rm, members[j]) ELSE members[j]]

RemapGroups(grps, rm) ==
    [i \in 1..Len(grps) |->
        [grps[i] EXCEPT !.v.levels = RemapMembers(grps[i].v.levels, rm)]]

\* _save_settings writes the hotkey map and the group map
Saved(hks, grps) == [hotkeys |-> hks, groups |-> grps]

ReconcileRet(old, rm) ==
    IF old = <<>> THEN 0 ELSE IF rm = <<>> THEN 0 ELSE Len(rm)

\* as ReconcileNumbers, but saving before the early returns
ReconcileNumbersAlwaysSave(old, new, hks, grps, saved) ==
    LET rm == IF old = <<>> THEN <<>> ELSE ComputeRemap(old, new)
    IN  [remap    |-> rm,
         ret      |-> ReconcileRet(old, rm),
         hotkeys  |-> IF rm = <<>> THEN hks ELSE RemapHotkeys(hks, rm),
         groups   |-> IF rm = <<>> THEN grps ELSE RemapGroups(grps, rm),
         settings |-> IF rm = <<>> THEN Saved(hks, grps)
                      ELSE Saved(RemapHotkeys(hks, rm), RemapGroups(grps, rm))]

\* the whole function, run without interruption: the state it leaves
ReconcileNumbers(old, new, hks, grps, saved) ==
    LET rm == IF old = <<>> THEN <<>> ELSE ComputeRemap(old, new)
    IN  [remap    |-> rm,
         ret      |-> ReconcileRet(old, rm),
         hotkeys  |-> IF rm = <<>> THEN hks ELSE RemapHotkeys(hks, rm),
         groups   |-> IF rm = <<>> THEN grps ELSE RemapGroups(grps, rm),
         settings |-> IF rm = <<>> THEN saved
                      ELSE Saved(RemapHotkeys(hks, rm), RemapGroups(grps, rm))]

----------------------------------------------------------------------------
(* The function applied to drawn inputs: two scans, a hotkey map and a     *)
(* group map, then applied a second time to the same two scans.            *)

Level(n, nm) == [number |-> n, name |-> nm]

\* what scan_levels can return: the host numbers its levels distinctly
Scans ==
    {s \in SeqsUpTo([number : Nums, name : Names], MaxLevels) :
        \A i, j \in 1..Len(s) : s[i].number = s[j].number => i = j}

HotkeyMaps ==
    {d \in SeqsUpTo([k : Nums, v : HKs], 2) :
        \A i, j \in 1..Len(d) : (d[i].k = d[j].k \/ d[i].v = d[j].v) => i = j}

GroupName(nms, more) == [names |-> nms, more |-> more]

\* no group: the parent of a top-level row, the group of a level target
NoGroup == [names |-> <<>>, more |-> -1]

\* self._recording_target: None, a level number, or "grp:<name>"
NoTarget == [t |-> "none", num |-> 0, grp |-> NoGroup]
LevelTarget(n) == [t |-> "lv", num |-> n, grp |-> NoGroup]
GroupTarget(name) == [t |-> "grp", num |-> 0, grp |-> name]

\* the locals of a background rescan that is not running
\* a toggle request: a level number, or the members and the name of a group
NoRequest == [num |-> 0, nums |-> <<>>, name |-> NoGroup]
LevelRequest(n) == [num |-> n, nums |-> <<>>, name |-> NoGroup]
GroupRequest(nums, name) == [num |-> 0, nums |-> nums, name |-> name]

\* the locals of a background rescan that is not running; kind tells the
\* thread of the health check from the thread of _auto_rescan_and_retry,
\* req is the request the latter retries
IdleWk == [new_levels |-> <<>>, i |-> 0, size |-> 0, popped |-> None,
           success |-> FALSE, posting |-> <<>>, kind |-> "health", req |-> NoRequest]

\* _on_hotkey_press not running: seen are the keys the dict iterator has
\* yielded, size the dict's size when the loop began
IdlePress == [at |-> "idle", key |-> [cls |-> "Key", name |-> "none", char |-> "", vk |-> 0],
              seen |-> {}, size |-> 0]

\* no toggle has run
NoOutcome == [by |-> "none", req |-> NoRequest, retry |-> FALSE, toggled |-> 0,
              failed |-> FALSE]

\* a key as the listener delivers it: a member of the enum Key (it has a
\* name, no char, no vk) or a KeyCode (char and vk, either may be None:
\* "" and 0 here)
KeyOf(name) == [cls |-> "Key", name |-> name, char |-> "", vk |-> 0]
KeyCode(char, vk) == [cls |-> "KeyCode", name |-> "", char |-> char, vk |-> vk]

\* a hotkey_matches call that has not been made
NoCall == [hk |-> None, key |-> KeyOf("none"), ctrl_held |-> FALSE, alt_held |-> FALSE,
           shift_held |-> FALSE, result |-> FALSE]

\* __init__: no recording, the global listener started, nothing posted, no
\* rescan, no health poll
Started ==
    /\ wk = IdleWk
    /\ recording_target = NoTarget
    /\ recording_mods = {}
    /\ listener = TRUE
    /\ rec_listener = FALSE
    /\ rec_threads = 0
    /\ afterq = <<>>
    /\ rescanning = FALSE
    /\ health_poll_id = FALSE
    /\ timers = 0
    /\ probing = 0
    /\ held = {}
    /\ press = IdlePress
    /\ outcome = NoOutcome
    /\ down = {}

GroupMaps ==
    {<<>>} \cup
    {<<[k |-> GroupName(<<"Body", "Top">>, 0),
        v |-> [levels |-> m, hotkey |-> None]]>> :
        m \in {x \in [1..2 -> Nums] : x[1] # x[2]}}

InitReconcile ==
    /\ levels \in Scans
    /\ old_levels \in Scans
    /\ hotkeys \in HotkeyMaps
    /\ groups \in GroupMaps
    \* save_settings swallows a failed write: the file may be behind the maps
    /\ settings \in {Saved(hotkeys, groups), Saved(<<>>, <<>>)}
    /\ ret = 0
    /\ remap = <<>>
    /\ pre = [hotkeys |-> hotkeys, groups |-> groups, settings |-> settings]
    /\ once = [hotkeys |-> hotkeys, groups |-> groups]
    /\ pc = "start"
    /\ tree = TRUE
    /\ treeview = <<>>
    /\ status = "info"
    /\ scans = 0
    /\ call = NoCall
    /\ selection = {}
    /\ Started

ReconcileOnce ==
    /\ pc = "start"
    /\ LET r == ReconcileNumbers(old_levels, levels, hotkeys, groups, settings)
       IN  /\ hotkeys' = r.hotkeys
           /\ groups' = r.groups
           /\ settings' = r.settings
           /\ ret' = r.ret
           /\ remap' = r.remap
           /\ once' = [hotkeys |-> r.hotkeys, groups |-> r.groups]
    /\ pc' = "once"
    /\ UNCHANGED <<levels, old_levels, pre, wk>>
    /\ UNCHANGED <<uiVars, recVars, bgVars, call, selection, routerVars>>

ReconcileTwice ==
    /\ pc = "once"
    /\ LET r == ReconcileNumbers(old_levels, levels, hotkeys, groups, settings)
       IN  /\ hotkeys' = r.hotkeys
           /\ groups' = r.groups
           /\ settings' = r.settings
           /\ ret' = r.ret
           /\ remap' = r.remap
    /\ pc' = "twice"
    /\ UNCHANGED <<levels, old_levels, pre, once, wk>>
    /\ UNCHANGED <<uiVars, recVars, bgVars, call, selection, routerVars>>

NextReconcile == ReconcileOnce \/ ReconcileTwice

SpecReconcile == InitReconcile /\ [][NextReconcile]_vars

----------------------------------------------------------------------------
(* Properties of _reconcile_numbers (checked under SpecReconcile) *)

\* a dict as the set of its entries: Python compares dicts without order
Entries(d) == {<<d[i].k, d[i].v>> : i \in 1..Len(d)}

Values(d) == {d[i].v : i \in 1..Len(d)}

\* the remap the names call for: a name found once in each scan, under
\* two different numbers
ExpectedRemap(old, new) ==
    {<<old[i].number, new[j].number>> :
        <<i, j>> \in {p \in (1..Len(old)) \X (1..Len(new)) :
                        /\ old[p[1]].name = new[p[2]].name
                        /\ NameCount(old, old[p[1]].name) = 1
                        /\ NameCount(new, new[p[2]].name) = 1
                        /\ old[p[1]].number # new[p[2]].number}}

\* C1: the remap holds exactly the names present once in both scans whose
\* number differs (equal numbers, missing names and duplicated names give
\* no entry), and the returned count is the number of remap entries.
C1_RemapExact ==
    pc = "once" =>
        /\ Entries(remap) = ExpectedRemap(old_levels, levels)
        /\ ret = Len(remap)
        /\ ret = Cardinality(ExpectedRemap(old_levels, levels))

\* one name renumbered, another name kept its number
C1_Witness ==
    /\ pc = "once"
    /\ ret = 1
    /\ \E i \in 1..Len(old_levels), j \in 1..Len(levels) : old_levels[i] = levels[j]

\* C2: running the reconciliation a second time with the same two scans
\* leaves the hotkeys and the group member lists as the first run left them.
C2_Idempotent ==
    pc = "twice" =>
        /\ Entries(hotkeys) = Entries(once.hotkeys)
        /\ Entries(groups) = Entries(once.groups)

\* C3: reconciliation loses and duplicates nothing: as many hotkey
\* assignments after as before, every hotkey value still present, and no
\* group member list gains a duplicate number.
C3_NoLossNoDuplicate ==
    pc = "once" =>
        /\ Len(hotkeys) = Len(pre.hotkeys)
        /\ Values(pre.hotkeys) \subseteq Values(hotkeys)
        /\ \A i \in 1..Len(groups) :
              Injective(pre.groups[i].v.levels) => Injective(groups[i].v.levels)

\* C4: for every remap entry old->new the hotkey that was keyed on old is
\* keyed on new and no longer on old, and every group member list has each
\* remapped number replaced at its position, the other members unchanged.
C4_RemapApplied ==
    pc = "once" =>
        /\ \A i \in 1..Len(remap) :
              Has(pre.hotkeys, remap[i].k) =>
                 /\ Has(hotkeys, remap[i].v)
                 /\ Get(hotkeys, remap[i].v) = Get(pre.hotkeys, remap[i].k)
                 /\ ~(Has(hotkeys, remap[i].k)
                        /\ Get(hotkeys, remap[i].k) = Get(pre.hotkeys, remap[i].k))
        /\ Len(groups) = Len(pre.groups)
        /\ \A g \in 1..Len(groups) :
              /\ Len(groups[g].v.levels) = Len(pre.groups[g].v.levels)
              /\ \A j \in 1..Len(groups[g].v.levels) :
                    LET n == pre.groups[g].v.levels[j]
                    IN  groups[g].v.levels[j] =
                            IF Has(remap, n) THEN Get(remap, n) ELSE n

\* a level carries an ambiguous name: its name occurs twice in a scan
Ambiguous(nm) == NameCount(old_levels, nm) > 1 \/ NameCount(levels, nm) > 1

\* C5: a name that occurs more than once in the old or in the new scan is
\* never remapped: every remap entry comes from a name found once in each
\* scan, no level with an ambiguous name is a remap source, and when no
\* other name calls for a remap the hotkeys and groups stay as they were.
C5_AmbiguousNeverRemapped ==
    pc = "once" =>
        /\ \A i \in 1..Len(old_levels) :
              Ambiguous(old_levels[i].name) => ~Has(remap, old_levels[i].number)
        /\ \A e \in Entries(remap) :
              \E i \in 1..Len(old_levels), j \in 1..Len(levels) :
                  /\ old_levels[i].number = e[1]
                  /\ levels[j].number = e[2]
                  /\ old_levels[i].name = levels[j].name
                  /\ ~Ambiguous(levels[j].name)
        /\ (\A i \in 1..Len(old_levels) : Ambiguous(old_levels[i].name)) =>
              hotkeys = pre.hotkeys /\ groups = pre.groups

\* a duplicated old name reappears under a new number, and a hotkey and a
\* group member are keyed on one of the old numbers that carried it
C5_Witness ==
    /\ pc = "once"
    /\ \E i \in 1..Len(old_levels), j \in 1..Len(levels) :
          /\ NameCount(old_levels, old_levels[i].name) > 1
          /\ old_levels[i].name = levels[j].name
          /\ \A k \in 1..Len(old_levels) : old_levels[k].number # levels[j].number
          /\ Has(pre.hotkeys, old_levels[i].number)
          /\ \E g \in 1..Len(pre.groups) :
                old_levels[i].number \in Range(pre.groups[g].v.levels)

\* C6: with no old scan the function returns 0 and leaves the hotkey map,
\* every group and the settings file unchanged.
C6_FirstScanNoOp ==
    (pc = "once" /\ old_levels = <<>>) =>
        /\ ret = 0
        /\ hotkeys = pre.hotkeys
        /\ groups = pre.groups
        /\ settings = pre.settings

\* a first scan that found levels, with hotkeys and a group already loaded
C6_Witness ==
    /\ pc = "once"
    /\ old_levels = <<>>
    /\ levels # <<>>
    /\ hotkeys # <<>>
    /\ groups # <<>>
    /\ settings # Saved(hotkeys, groups)

----------------------------------------------------------------------------
(* Keys and hotkey_matches *)

_is_ctrl(key) == key.cls = "Key" /\ key.name \in {"ctrl_l", "ctrl_r", "ctrl"}
_is_alt(key) == key.cls = "Key" /\ key.name \in {"alt_l", "alt_r", "alt", "alt_gr"}
_is_shift(key) == key.cls = "Key" /\ key.name \in {"shift", "shift_l", "shift_r"}
_is_modifier(key) == _is_ctrl(key) \/ _is_alt(key) \/ _is_shift(key)

\* str.lower, str.upper, len, ord and chr on the strings of the model
Lower(str) == IF str = "A" THEN "a" ELSE str
Upper(str) == IF str = "a" THEN "A" ELSE str
StrLen(str) == IF str \in {"a", "A", "1"} THEN 1 ELSE IF str = "" THEN 0 ELSE 2
Ord(c) == IF c = "A" THEN 65 ELSE IF c = "a" THEN 97 ELSE IF c = "1" THEN 49 ELSE 0
Chr(n) == IF n = 65 THEN "A" ELSE IF n = 49 THEN "1" ELSE "?"

\* trigger.startswith("f") and trigger[1:].isdigit()
IsFKey(trigger) == trigger \in {"f4", "f99"}

\* the names of the enum Key among the strings of the model
KeyNames == {"f4", "space", "esc", "ctrl_l", "shift", "alt_l"}

\* as hotkey_matches, but a held modifier the hotkey does not name is let pass
HotkeyMatchesRequiredHeld(hk, key, ctrl_held, alt_held, shift_held) ==
    IF hk = None THEN FALSE
    ELSE IF "ctrl" \in hk.modifiers /\ ~ctrl_held THEN FALSE
    ELSE IF "alt" \in hk.modifiers /\ ~alt_held THEN FALSE
    ELSE IF "shift" \in hk.modifiers /\ ~shift_held THEN FALSE
    ELSE LET trigger == hk.key
         IN  IF IsFKey(trigger)
             THEN trigger \in KeyNames /\ key = KeyOf(trigger)
             ELSE IF key.cls = "KeyCode" /\ key.char # ""
             THEN Lower(key.char) = Lower(trigger)
             ELSE IF key.cls = "KeyCode" /\ key.vk # 0 /\ StrLen(trigger) = 1
             THEN key.vk = Ord(Upper(trigger))
             ELSE FALSE

hotkey_matches(hk, key, ctrl_held, alt_held, shift_held) ==
    IF hk = None THEN FALSE
    ELSE IF ("ctrl" \in hk.modifiers) # ctrl_held THEN FALSE
    ELSE IF ("alt" \in hk.modifiers) # alt_held THEN FALSE
    ELSE IF ("shift" \in hk.modifiers) # shift_held THEN FALSE
    ELSE LET trigger == hk.key
         IN  IF IsFKey(trigger)
             \* key == getattr(keyboard.Key, trigger, None)
             THEN trigger \in KeyNames /\ key = KeyOf(trigger)
             ELSE IF key.cls = "KeyCode" /\ key.char # ""
             THEN Lower(key.char) = Lower(trigger)
             ELSE IF key.cls = "KeyCode" /\ key.vk # 0 /\ StrLen(trigger) = 1
             THEN key.vk = Ord(Upper(trigger))
             ELSE FALSE

(* The function applied to drawn arguments *)

Triggers == {"a", "1", "f4", "f99", "space"}

StoredHotkeys == {None} \cup [key : Triggers, modifiers : SUBSET Mods]

PressedKeys ==
    {KeyCode("a", 65), KeyCode("A", 65), KeyCode("", 65), KeyCode("1", 49),
     KeyCode("", 0), KeyOf("f4"), KeyOf("space")}

InitMatch ==
    /\ call \in [hk : StoredHotkeys, key : PressedKeys, ctrl_held : BOOLEAN,
                 alt_held : BOOLEAN, shift_held : BOOLEAN, result : {FALSE}]
    /\ selection = {}
    /\ pc = "start"
    /\ levels = <<>>
    /\ hotkeys = <<>>
    /\ groups = <<>>
    /\ settings = Saved(<<>>, <<>>)
    /\ old_levels = <<>>
    /\ remap = <<>>
    /\ ret = 0
    /\ pre = [hotkeys |-> <<>>, groups |-> <<>>, settings |-> Saved(<<>>, <<>>)]
    /\ once = [hotkeys |-> <<>>, groups |-> <<>>]
    /\ tree = FALSE
    /\ treeview = <<>>
    /\ status = "info"
    /\ scans = 0
    /\ Started

Match ==
    /\ pc = "start"
    /\ call' = [call EXCEPT !.result =
                   hotkey_matches(call.hk, call.key, call.ctrl_held, call.alt_held,
                                  call.shift_held)]
    /\ pc' = "returned"
    /\ UNCHANGED <<dataVars, funVars, old_levels, remap, wk, uiVars, recVars, bgVars,
                   selection, routerVars>>

NextMatch == Match

SpecMatch == InitMatch /\ [][NextMatch]_vars

\* the modifiers held during the call, as a set
HeldMods ==
    {m \in Mods : \/ m = "ctrl" /\ call.ctrl_held
                  \/ m = "alt" /\ call.alt_held
                  \/ m = "shift" /\ call.shift_held}

\* C9: hotkey_matches returns true only when the held ctrl/alt/shift flags
\* are exactly the stored modifier set: no stored modifier is released and
\* no other modifier is held.
C9_ExactModifiers ==
    (pc = "returned" /\ call.result) =>
        /\ call.hk # None
        /\ call.hk.modifiers = HeldMods

\* ctrl and shift are held, the key is the trigger of a hotkey that asks
\* for ctrl alone, and the call returned false
C9_Witness ==
    /\ pc = "returned"
    /\ call.hk = [key |-> "a", modifiers |-> {"ctrl"}]
    /\ call.key = KeyCode("a", 65)
    /\ call.ctrl_held /\ call.shift_held /\ ~call.alt_held
    /\ ~call.result

----------------------------------------------------------------------------
(* toggle_visibility *)

\* a child of the level's tree item as the host answers for it now: its
\* control type and automation id (either query may raise) and what Invoke
\* does
Children ==
    [ct : {"Button", "Edit", "raises"},
     aid : {"IsLevelVisibleButton", "other", "raises"},
     invoke : {"ok", "raises"}]

\* the test of lines 244-245; a query that raises is caught and the child
\* is passed over
IsVisibleButton(child) == child.ct = "Button" /\ child.aid = "IsLevelVisibleButton"

\* the control a scan cached in level["vis_btn"], as opposed to the live
\* children, which are named by their position
CachedButton == 0

\* as toggle_visibility, but the button cached by the scan is invoked when
\* there is one
ToggleVisibilityCached(level, children_raises, children) ==
    IF level.vis_btn THEN [ret |-> TRUE, invoked |-> <<CachedButton>>, raised |-> FALSE]
    ELSE [ret |-> FALSE, invoked |-> <<>>, raised |-> FALSE]

\* toggle_visibility(level): the value returned, the controls on which
\* Invoke was called, in order, and whether an exception left the function
toggle_visibility(level, children_raises, children) ==
    IF ~level.item THEN [ret |-> FALSE, invoked |-> <<>>, raised |-> FALSE]
    ELSE IF children_raises THEN [ret |-> FALSE, invoked |-> <<>>, raised |-> FALSE]
    ELSE LET F[i \in 0..Len(children)] ==
                 IF i = 0 THEN [ret |-> FALSE, invoked |-> <<>>, raised |-> FALSE]
                 ELSE IF F[i-1].ret THEN F[i-1]
                 ELSE IF ~IsVisibleButton(children[i]) THEN F[i-1]
                 ELSE [ret     |-> children[i].invoke = "ok",
                       invoked |-> Append(F[i-1].invoked, i),
                       raised  |-> FALSE]
         IN  F[Len(children)]

(* The function applied to drawn arguments *)

InitToggle ==
    /\ call \in [level : [item : BOOLEAN, vis_btn : BOOLEAN],
                 children_raises : BOOLEAN,
                 children : SeqsUpTo(Children, MaxChildren),
                 result : {[ret |-> FALSE, invoked |-> <<>>, raised |-> FALSE]}]
    /\ selection = {}
    /\ pc = "start"
    /\ levels = <<>>
    /\ hotkeys = <<>>
    /\ groups = <<>>
    /\ settings = Saved(<<>>, <<>>)
    /\ old_levels = <<>>
    /\ remap = <<>>
    /\ ret = 0
    /\ pre = [hotkeys |-> <<>>, groups |-> <<>>, settings |-> Saved(<<>>, <<>>)]
    /\ once = [hotkeys |-> <<>>, groups |-> <<>>]
    /\ tree = TRUE
    /\ treeview = <<>>
    /\ status = "info"
    /\ scans = 0
    /\ Started

ToggleCall ==
    /\ pc = "start"
    /\ call' = [call EXCEPT !.result =
                   toggle_visibility(call.level, call.children_raises, call.children)]
    /\ pc' = "returned"
    /\ UNCHANGED <<dataVars, funVars, old_levels, remap, wk, uiVars, recVars, bgVars,
                   selection, routerVars>>

NextToggle == ToggleCall

SpecToggle == InitToggle /\ [][NextToggle]_vars

\* C14: toggle_visibility never raises; without an item handle, with a
\* failing children query or with no live child that is the visibility
\* button it returns False and invokes nothing; it returns True only after
\* invoking a live child that is the visibility button, and the button
\* cached by the scan is never invoked.
C14_ToggleFromLiveChildren ==
    pc = "returned" =>
        LET r    == call.result
            live == {i \in 1..Len(call.children) : IsVisibleButton(call.children[i])}
        IN  /\ ~r.raised
            /\ (~call.level.item \/ call.children_raises \/ live = {}) =>
                   (~r.ret /\ r.invoked = <<>>)
            /\ r.ret => /\ r.invoked # <<>>
                        /\ r.invoked[Len(r.invoked)] \in live
                        /\ call.children[r.invoked[Len(r.invoked)]].invoke = "ok"
            /\ \A k \in 1..Len(r.invoked) : r.invoked[k] \in 1..Len(call.children)

\* the scan cached a button and the item handle is there, but none of the
\* item's live children is the visibility button: False, nothing invoked
C14_Witness ==
    /\ pc = "returned"
    /\ call.level.item /\ call.level.vis_btn
    /\ ~call.children_raises
    /\ Len(call.children) = 2
    /\ \A i \in 1..2 : ~IsVisibleButton(call.children[i])
    /\ ~call.result.ret
    /\ call.result.invoked = <<>>

----------------------------------------------------------------------------
(* The tree view of the management window *)

\* a row: its iid is "grp_<name>" or "lv_<number>"; grp is the parent of a
\* level row (NoGroup at the top level) and the name of a group row
GroupRow(name) == [t |-> "grp", num |-> 0, grp |-> name]
LevelRow(n, parent) == [t |-> "lv", num |-> n, grp |-> parent]

\* the order of sorted(self.groups.items()): the names compared as strings.
\* "Body" < "Top"; a name that is a prefix of another sorts first; the
\* " +N" suffix sorts after " + <name>" and before a letter at the start.
TokenRank(nm) == IF nm = "Body" THEN 1 ELSE 2

SortKey(g) ==
    LET base == [i \in 1..Len(g.names) |-> TokenRank(g.names[i])]
    IN  IF g.more <= 0 THEN base
        ELSE IF base = <<>> THEN <<0>> ELSE Append(base, 2 + g.more)

LexLess(a, b) ==
    \E i \in 1..(Len(b)) :
        /\ \A j \in 1..(i-1) : j <= Len(a) /\ a[j] = b[j]
        /\ (i > Len(a) \/ (i <= Len(a) /\ a[i] < b[i]))

SortedGroups(grps) ==
    LET rank(i) == 1 + Cardinality({j \in 1..Len(grps) :
                                     LexLess(SortKey(grps[j].k), SortKey(grps[i].k))})
    IN  [r \in 1..Len(grps) |-> grps[CHOOSE i \in 1..Len(grps) : rank(i) = r]]

\* the name shown for a number: the first level of the list that carries it
LevelNames(lvls, num) ==
    LET idx == {i \in 1..Len(lvls) : lvls[i].number = num}
    IN  IF idx = {} THEN <<>>
        ELSE <<lvls[CHOOSE i \in idx : \A j \in idx : i <= j].name>>

GroupedNums(grps) == UNION {Range(grps[i].v.levels) : i \in 1..Len(grps)}

\* the rows _populate_treeview inserts, in order
RowsToInsert(grps, lvls) ==
    LET sg == SortedGroups(grps)
        G[i \in 0..Len(sg)] ==
            IF i = 0 THEN <<>>
            ELSE G[i-1] \o <<GroupRow(sg[i].k)>>
                 \o [j \in 1..Len(sg[i].v.levels) |->
                        LevelRow(sg[i].v.levels[j], sg[i].k)]
        ungrouped == SelectSeq(lvls, LAMBDA l : l.number \notin GroupedNums(grps))
    IN  G[Len(sg)] \o [j \in 1..Len(ungrouped) |-> LevelRow(ungrouped[j].number, NoGroup)]

SameIid(r1, r2) ==
    /\ r1.t = r2.t
    /\ IF r1.t = "lv" THEN r1.num = r2.num ELSE r1.grp = r2.grp

\* treeview.insert raises when the iid exists: the rows before it remain
\* and the exception leaves the handler
Populate(grps, lvls) ==
    LET rows == RowsToInsert(grps, lvls)
        bad  == {i \in 1..Len(rows) : \E j \in 1..(i-1) : SameIid(rows[i], rows[j])}
    IN  IF bad = {} THEN [rows |-> rows, ok |-> TRUE]
        ELSE [rows |-> SubSeq(rows, 1, (CHOOSE i \in bad : \A j \in bad : i <= j) - 1),
              ok |-> FALSE]

\* treeview.set(iid, ...) raises when no row has the iid
RowExists(rows, target) ==
    \E i \in 1..Len(rows) :
        /\ rows[i].t = target.t
        /\ IF target.t = "lv" THEN rows[i].num = target.num ELSE rows[i].grp = target.grp

----------------------------------------------------------------------------
(* Connect / Refresh, on the owner thread *)

\* what the host can show: at most n items, numbered in N and named in nms,
\* ordered by number
HostScans(N, nms, n) ==
    {s \in SeqsUpTo([number : N, name : nms], n) :
        \A i, j \in 1..Len(s) : i < j => s[i].number < s[j].number}

\* as _start_health_poll, but the timer that is pending is not cancelled
StartWithoutCancel ==
    /\ health_poll_id' = TRUE
    /\ timers' = timers + 1

\* _start_health_poll: the timer the attribute names is cancelled and a new
\* one is set
_start_health_poll ==
    /\ health_poll_id' = TRUE
    /\ timers' = (IF health_poll_id THEN timers - 1 ELSE timers) + 1

\* _rescan_levels run without interruption; scan = <<>> stands for a scan
\* that raised or found nothing
RescanLevels(scan, lvls, hks, grps, saved) ==
    IF scan = <<>>
    THEN [ok |-> FALSE, levels |-> lvls, hotkeys |-> hks, groups |-> grps,
          settings |-> saved]
    ELSE LET r == ReconcileNumbers(lvls, scan, hks, grps, saved)
         IN  [ok |-> TRUE, levels |-> scan, hotkeys |-> r.hotkeys,
              groups |-> r.groups, settings |-> r.settings]

\* what the handlers of this section leave alone
ConnectUnchanged ==
    UNCHANGED <<funVars, workVars, recVars, afterq, rescanning, probing, call, selection, routerVars>>

\* _on_connect_click -> _connect_and_scan, fast path: the rescan over the
\* existing tree succeeds.  A row that cannot be inserted ends the handler
\* before the health poll is started.
ConnectFast(scan) ==
    LET fast == RescanLevels(scan, levels, hotkeys, groups, settings)
        p    == Populate(fast.groups, fast.levels)
    IN  /\ tree /\ fast.ok
        /\ scans < MaxScans
        /\ scans' = scans + 1
        /\ levels' = fast.levels
        /\ hotkeys' = fast.hotkeys
        /\ groups' = fast.groups
        /\ settings' = fast.settings
        /\ treeview' = p.rows
        /\ status' = "info"
        /\ IF p.ok THEN _start_health_poll ELSE UNCHANGED <<health_poll_id, timers>>
        /\ UNCHANGED tree
        /\ ConnectUnchanged

\* no tree yet, or the rescan failed (the scan raised or found nothing), and
\* connect_levels_panel returns an error
ConnectError ==
    /\ status' = "Error"
    /\ UNCHANGED <<levels, hotkeys, groups, settings, treeview, tree, scans,
                   health_poll_id, timers>>
    /\ ConnectUnchanged

\* no tree yet, or the rescan failed, and connect_levels_panel finds the
\* panel: the full reconnect and scan
ConnectSlow(scan) ==
    LET r == ReconcileNumbers(levels, scan, hotkeys, groups, settings)
        p == Populate(r.groups, scan)
    IN  /\ scans < MaxScans
        /\ scans' = scans + 1
        /\ tree' = TRUE
        /\ levels' = scan
        /\ hotkeys' = r.hotkeys
        /\ groups' = r.groups
        /\ settings' = r.settings
        /\ treeview' = p.rows
        /\ status' = "info"
        /\ IF p.ok THEN _start_health_poll ELSE UNCHANGED <<health_poll_id, timers>>
        /\ ConnectUnchanged

----------------------------------------------------------------------------
(* Groups *)

\* list(dict.fromkeys(nums)): the first occurrence of each number
Dedupe(s) ==
    LET F[i \in 0..Len(s)] ==
            IF i = 0 THEN <<>>
            ELSE IF s[i] \in Range(F[i-1]) THEN F[i-1] ELSE Append(F[i-1], s[i])
    IN  F[Len(s)]

\* treeview.selection(): the selected rows in display order
Selection(rows, picked) ==
    LET F[i \in 0..Len(rows)] ==
            IF i = 0 THEN <<>>
            ELSE IF i \in picked THEN Append(F[i-1], rows[i]) ELSE F[i-1]
    IN  F[Len(rows)]

\* the level numbers of a selection, a group header standing for its members
SelectedNums(sel, grps) ==
    LET F[i \in 0..Len(sel)] ==
            IF i = 0 THEN <<>>
            ELSE IF sel[i].t = "lv" THEN Append(F[i-1], sel[i].num)
                 ELSE IF Has(grps, sel[i].grp)
                      THEN F[i-1] \o Get(grps, sel[i].grp).levels
                      ELSE F[i-1]
    IN  Dedupe(F[Len(sel)])

\* " + ".join of the names of the first three numbers found in the levels,
\* and " +N" for the numbers beyond three
DerivedName(nums, lvls) ==
    LET first == SubSeq(nums, 1, IF Len(nums) < 3 THEN Len(nums) ELSE 3)
        F[i \in 0..Len(first)] ==
            IF i = 0 THEN <<>> ELSE F[i-1] \o LevelNames(lvls, first[i])
    IN  GroupName(F[Len(first)], IF Len(nums) > 3 THEN Len(nums) - 3 ELSE 0)

\* the loop over list(self.groups.items()): selected members leave their
\* former group, a group left with fewer than 2 members is deleted
RemoveFromGroups(grps, nums) ==
    LET F[i \in 0..Len(grps)] ==
            IF i = 0 THEN grps
            ELSE LET name      == grps[i].k
                     remaining == SelectSeq(grps[i].v.levels,
                                            LAMBDA n : n \notin Range(nums))
                 IN  IF Len(remaining) < 2 THEN Del(F[i-1], name)
                     ELSE IF remaining # grps[i].v.levels
                          THEN Put(F[i-1], name,
                                   [grps[i].v EXCEPT !.levels = remaining])
                          ELSE F[i-1]
    IN  F[Len(grps)]

CreateGroupResult(grps, nums, lvls) ==
    Put(RemoveFromGroups(grps, nums), DerivedName(nums, lvls),
        [levels |-> nums, hotkey |-> None])

\* what _create_group and _ungroup_selected leave alone
GroupUnchanged ==
    UNCHANGED <<levels, hotkeys, tree, scans, funVars, workVars, recVars, bgVars, call, selection, routerVars>>

\* as _create_group, but a single number is enough for a group
CreateGroupAnySize(picked) ==
    LET nums == SelectedNums(Selection(treeview, picked), groups)
    IN  IF Len(nums) < 1
        THEN /\ status' = "info"
             /\ UNCHANGED <<groups, settings, treeview>>
        ELSE LET g == CreateGroupResult(groups, nums, levels)
                 p == Populate(g, levels)
             IN  /\ groups' = g
                 /\ settings' = Saved(hotkeys, g)
                 /\ treeview' = p.rows
                 /\ status' = "info"

\* _create_group with the rows `picked` selected: what it assigns
_create_group(picked) ==
    LET nums == SelectedNums(Selection(treeview, picked), groups)
    IN  IF Len(nums) < 2
        THEN /\ status' = "info"
             /\ UNCHANGED <<groups, settings, treeview>>
        ELSE LET g == CreateGroupResult(groups, nums, levels)
                 p == Populate(g, levels)
             IN  /\ groups' = g
                 /\ settings' = Saved(hotkeys, g)
                 /\ treeview' = p.rows
                 /\ status' = "info"

\* the handler in the running application
CreateGroup(picked) == _create_group(picked) /\ GroupUnchanged

OnCreateGroup == \E picked \in SUBSET (1..Len(treeview)) : CreateGroup(picked)

\* _ungroup_selected with `row` the first selected row
Ungroup(row) ==
    LET name == row.grp   \* the group row's name, or the parent of a level row
    IN  IF name = NoGroup \/ ~Has(groups, name)
        THEN /\ status' = "info"
             /\ UNCHANGED <<groups, settings, treeview>>
             /\ GroupUnchanged
        ELSE LET g == Del(groups, name)
                 p == Populate(g, levels)
             IN  /\ groups' = g
                 /\ settings' = Saved(hotkeys, g)
                 /\ treeview' = p.rows
                 /\ status' = "info"
                 /\ GroupUnchanged

OnUngroup == \E i \in 1..Len(treeview) : Ungroup(treeview[i])

----------------------------------------------------------------------------
(* Grouping and rescanning, started with the groups a settings file holds *)

GroupNums == 1..MaxGroupNum

\* _load_settings: the groups of an earlier run, each number in one group
LoadedGroups ==
    LET g1 == [k |-> GroupName(<<"Body", "Top">>, 0),
               v |-> [levels |-> <<1, 2>>, hotkey |-> None]]
        g2 == [k |-> GroupName(<<"Top", "Body">>, 0),
               v |-> [levels |-> <<3, 4>>, hotkey |-> None]]
    IN  {<<>>, <<g1>>, <<g1, g2>>}

\* the state __init__ leaves, given the loaded hotkeys and groups
Constructed(hks, grps) ==
    /\ levels = <<>>
    /\ hotkeys = hks
    /\ groups = grps
    /\ settings = Saved(hks, grps)
    /\ old_levels = <<>>
    /\ remap = <<>>
    /\ pc = "idle"
    /\ ret = 0
    /\ pre = [hotkeys |-> <<>>, groups |-> <<>>, settings |-> Saved(<<>>, <<>>)]
    /\ once = [hotkeys |-> <<>>, groups |-> <<>>]
    /\ tree = FALSE
    /\ treeview = <<>>
    /\ status = "info"
    /\ scans = 0
    /\ call = NoCall
    /\ selection = {}
    /\ Started

InitGroups == \E grps \in LoadedGroups : Constructed(<<>>, grps)

NextGroups ==
    \/ \E scan \in HostScans(GroupNums, Names, MaxGroupLevels) : ConnectFast(scan)
    \/ ConnectError
    \/ \E scan \in HostScans(GroupNums, Names, MaxGroupLevels) : ConnectSlow(scan)
    \/ OnCreateGroup
    \/ OnUngroup

SpecGroups == InitGroups /\ [][NextGroups]_vars

\* C10: a level number is a member of at most one group: no two groups
\* share a member, whatever creations, ungroupings and rescans came before.
C10_OneGroupPerNumber ==
    \A g, h \in 1..Len(groups) :
        g # h => Range(groups[g].v.levels) \cap Range(groups[h].v.levels) = {}

\* C11: every group has at least 2 distinct members, whatever creations,
\* ungroupings and rescans came before.
C11_GroupsHaveTwoMembers ==
    \A g \in 1..Len(groups) : Cardinality(Range(groups[g].v.levels)) >= 2

----------------------------------------------------------------------------
(* _create_group applied to drawn inputs: a longer list of levels whose    *)
(* display names repeat, the groups one or two earlier creations left, and *)
(* any selection of rows.                                                  *)

\* the host shows MaxWideNum levels, named Body, Top, Body, Top, ...
WideScan == [n \in 1..MaxWideNum |-> Level(n, IF n % 2 = 1 THEN "Body" ELSE "Top")]

\* the numbers of a set, ascending: a selection of level rows
Ascending(S) ==
    LET F[k \in 0..MaxWideNum] ==
            IF k = 0 THEN <<>>
            ELSE IF k \in S THEN Append(F[k-1], k) ELSE F[k-1]
    IN  F[MaxWideNum]

WideSelections == {Ascending(S) : S \in {T \in SUBSET (1..MaxWideNum) : Cardinality(T) >= 2}}

\* the group a creation leaves may have been given a hotkey since
WithHotkey(grps, hk) ==
    [i \in 1..Len(grps) |-> IF i = Len(grps) THEN [grps[i] EXCEPT !.v.hotkey = hk] ELSE grps[i]]

OneCreation ==
    {WithHotkey(CreateGroupResult(<<>>, nums, WideScan), hk) :
        nums \in WideSelections, hk \in {None, HK2}}

TwoCreations ==
    UNION {{CreateGroupResult(g, nums, WideScan) :
              nums \in {n \in WideSelections : Range(n) \cap GroupedNums(g) = {}}} :
           g \in OneCreation}

InitCreate ==
    /\ groups \in {<<>>} \cup OneCreation \cup TwoCreations
    /\ levels = WideScan
    /\ hotkeys = <<>>
    /\ settings = Saved(hotkeys, groups)
    /\ tree = TRUE
    /\ treeview = Populate(groups, levels).rows
    /\ status = "info"
    /\ scans = 1
    /\ pc = "start"
    /\ old_levels = <<>>
    /\ remap = <<>>
    /\ ret = 0
    /\ pre = [hotkeys |-> hotkeys, groups |-> groups, settings |-> settings,
              rows |-> treeview]
    /\ once = [hotkeys |-> <<>>, groups |-> <<>>]
    /\ call = NoCall
    /\ selection \in SUBSET (1..Len(treeview))
    /\ Started

CreateGroupCall ==
    /\ pc = "start"
    /\ _create_group(selection)
    /\ pc' = "returned"
    /\ UNCHANGED <<levels, hotkeys, tree, scans, funVars, old_levels, remap, wk, recVars,
                   bgVars, call, selection, routerVars>>

NextCreate == CreateGroupCall

SpecCreate == InitCreate /\ [][NextCreate]_vars

\* the numbers the selected rows stood for, as _create_group collected them
PickedNumsBefore == SelectedNums(Selection(pre.rows, selection), pre.groups)

\* C12: when _create_group groups 2 or more numbers, every group that held
\* one of them loses its selected members; left with fewer than 2 it is
\* gone with its hotkey (its name is free or names the new group), left
\* with 2 or more it keeps the remaining members in order and its hotkey.
C12_FormerGroupsTrimmed ==
    (pc = "returned" /\ Len(PickedNumsBefore) >= 2) =>
        \A i \in 1..Len(pre.groups) :
            LET nums      == PickedNumsBefore
                name      == pre.groups[i].k
                before    == pre.groups[i].v
                remaining == SelectSeq(before.levels, LAMBDA n : n \notin Range(nums))
            IN  Range(before.levels) \cap Range(nums) # {} =>
                   IF Len(remaining) < 2
                   THEN Has(groups, name) =>
                           Get(groups, name) = [levels |-> nums, hotkey |-> None]
                   ELSE /\ Has(groups, name)
                        /\ Get(groups, name) =
                              [levels |-> remaining, hotkey |-> before.hotkey]

\* C38: when _create_group groups 2 or more numbers, a group that held none
\* of them is still there under its name with the same members and the same
\* hotkey, whatever name the new group was given.
C38_DisjointGroupsKept ==
    (pc = "returned" /\ Len(PickedNumsBefore) >= 2) =>
        \A i \in 1..Len(pre.groups) :
            LET name   == pre.groups[i].k
                before == pre.groups[i].v
            IN  Range(before.levels) \cap Range(PickedNumsBefore) = {} =>
                   /\ Has(groups, name)
                   /\ Get(groups, name) = before

\* the distinct numbers the selection stood for: those of its level rows
\* and the members of the groups whose header was selected
PickedSet ==
    UNION {IF pre.rows[i].t = "lv" THEN {pre.rows[i].num}
           ELSE IF Has(pre.groups, pre.rows[i].grp)
                THEN Range(Get(pre.groups, pre.rows[i].grp).levels) ELSE {} :
           i \in selection}

\* C13: _create_group with fewer than 2 distinct selected numbers creates no
\* group and leaves the group map, the hotkey map and the settings file
\* unchanged.
C13_TooFewSelected ==
    (pc = "returned" /\ Cardinality(PickedSet) < 2) =>
        /\ groups = pre.groups
        /\ hotkeys = pre.hotkeys
        /\ settings = pre.settings

\* _create_group returned from a call with one row selected, a level that
\* was a member of a group with a hotkey
C13_Witness ==
    /\ pc = "returned"
    /\ Cardinality(selection) = 1
    /\ \E i \in selection :
          /\ pre.rows[i].t = "lv"
          /\ pre.rows[i].grp # NoGroup
          /\ Get(pre.groups, pre.rows[i].grp).hotkey # None

----------------------------------------------------------------------------
(* Hotkey recording *)

\* the callbacks posted with root.after(0, ...)
FinishCb(hk) == [cb |-> "finish", hk |-> hk, flag |-> FALSE, req |-> NoRequest]
CancelCb == [cb |-> "cancel", hk |-> None, flag |-> FALSE, req |-> NoRequest]
OnResultCb(fresh) == [cb |-> "on_result", hk |-> None, flag |-> fresh, req |-> NoRequest]
UpdateUiCb(success) == [cb |-> "update_ui", hk |-> None, flag |-> success, req |-> NoRequest]
\* the lambdas of _on_hotkey_press, _finish of _auto_rescan_and_retry and
\* self._notify_stale
ToggleCb(req) == [cb |-> "toggle", hk |-> None, flag |-> TRUE, req |-> req]
RetryCb(req) == [cb |-> "retry", hk |-> None, flag |-> FALSE, req |-> req]
NotifyStaleCb == [cb |-> "notify_stale", hk |-> None, flag |-> FALSE, req |-> NoRequest]

\* threads and callbacks that have yet to act
Pending ==
    Len(afterq) + rec_threads + probing + Len(wk.posting)
        + (IF pc = "idle" THEN 0 ELSE 1)

\* _get_selected_target for the first selected row; a group row whose name
\* is the empty string gives a falsy target
SelectedTarget(row) ==
    IF row.t = "grp"
    THEN IF row.grp = GroupName(<<>>, 0) THEN NoTarget ELSE GroupTarget(row.grp)
    ELSE LevelTarget(row.num)

\* _set_hotkey_selected -> _start_recording: the global listener is stopped
\* and a recording listener is started; a recording listener that is still
\* running is not stopped
SetHotkeyWithin(row, most) ==
    LET target == SelectedTarget(row)
    IN  IF target = NoTarget
        THEN /\ status' = "info"
             /\ UNCHANGED recVars
        ELSE /\ rec_threads < MaxRecThreads
             /\ Pending < most
             /\ listener' = FALSE
             /\ recording_target' = target
             /\ recording_mods' = {}
             /\ status' = "info"
             /\ rec_listener' = TRUE
             /\ rec_threads' = rec_threads + 1

SetHotkey(row) == SetHotkeyWithin(row, MaxPending)

OnSetHotkey ==
    /\ \E i \in 1..Len(treeview) : SetHotkey(treeview[i])
    /\ UNCHANGED <<dataVars, funVars, workVars, tree, treeview, scans, bgVars, call, selection, routerVars>>

\* _clear_hotkey_selected for the first selected row
ClearHotkey(row) ==
    LET target == SelectedTarget(row)
    IN  IF target.t = "grp" /\ Has(groups, target.grp)
        THEN /\ groups' = Put(groups, target.grp,
                              [Get(groups, target.grp) EXCEPT !.hotkey = None])
             /\ settings' = Saved(hotkeys, groups')
             /\ status' = "info"
             /\ UNCHANGED hotkeys
        ELSE IF target.t = "lv" /\ Has(hotkeys, target.num)
        THEN /\ hotkeys' = Del(hotkeys, target.num)
             /\ settings' = Saved(hotkeys', groups)
             /\ status' = "info"
             /\ UNCHANGED groups
        ELSE UNCHANGED <<hotkeys, groups, settings, status>>

OnClearHotkey ==
    /\ \E i \in 1..Len(treeview) : ClearHotkey(treeview[i])
    /\ UNCHANGED <<levels, funVars, workVars, tree, treeview, scans, recVars, bgVars,
                   call, selection, routerVars>>

\* the trigger _on_rec_press derives from a key that is no modifier
RecTrigger(key) ==
    IF key.cls = "KeyCode" /\ key.char # "" THEN Lower(key.char)
    ELSE IF key.cls = "Key" THEN key.name
    ELSE IF key.vk >= 65 /\ key.vk <= 90 THEN Lower(Chr(key.vk))
    ELSE IF key.vk >= 48 /\ key.vk <= 57 THEN Chr(key.vk)
    ELSE ""

\* n copies of a callback
Copies(cb, n) == [i \in 1..n |-> cb]

\* _on_rec_press, in every recording listener that runs: a modifier is
\* noted, Esc posts the cancellation, any other key posts the hotkey; a
\* listener that posted stops
RecPress(key) ==
    IF _is_ctrl(key)
    THEN /\ recording_mods' = recording_mods \cup {"ctrl"}
         /\ UNCHANGED <<afterq, rec_threads>>
    ELSE IF _is_alt(key)
    THEN /\ recording_mods' = recording_mods \cup {"alt"}
         /\ UNCHANGED <<afterq, rec_threads>>
    ELSE IF _is_shift(key)
    THEN /\ recording_mods' = recording_mods \cup {"shift"}
         /\ UNCHANGED <<afterq, rec_threads>>
    ELSE IF key = KeyOf("esc")
    THEN /\ afterq' = afterq \o Copies(CancelCb, rec_threads)
         /\ rec_threads' = 0
         /\ UNCHANGED recording_mods
    ELSE IF RecTrigger(key) # ""
    THEN /\ afterq' = afterq \o
                Copies(FinishCb([key |-> RecTrigger(key), modifiers |-> recording_mods]),
                       rec_threads)
         /\ rec_threads' = 0
         /\ UNCHANGED recording_mods
    ELSE UNCHANGED <<afterq, rec_threads, recording_mods>>

\* the keys pressed while a hotkey is recorded: a letter and Esc
RecKeys == {KeyCode("a", 65), KeyOf("esc")}

\* a key press delivered to the recording listeners
RecPressEvent(key) ==
    /\ rec_threads > 0
    /\ RecPress(key)
    /\ UNCHANGED <<dataVars, funVars, workVars, uiVars, recording_target, listener,
                   rec_listener, rescanning, health_poll_id, timers, probing, call, selection,
                   held, press, outcome>>

OnRecPress == \E key \in RecKeys : RecPressEvent(key) /\ UNCHANGED down

\* the conflict search of _finish_recording that finds nothing
NoConflict(target, hk, hks, grps) == FALSE

\* the conflict search of _finish_recording: another level or another
\* group holds a hotkey equal to hk
Conflict(target, hk, hks, grps) ==
    \/ \E i \in 1..Len(hks) :
          /\ ~(target.t = "lv" /\ hks[i].k = target.num)
          /\ hks[i].v = hk
    \/ \E i \in 1..Len(grps) :
          /\ ~(target.t = "grp" /\ grps[i].k = target.grp)
          /\ grps[i].v.hotkey = hk

\* _start_hotkey_listener: a listener that is started, not one that runs
\* already, begins with no modifier held
HeldAfterStart(running, runs) == IF runs /\ ~running THEN {} ELSE held

\* self._rec_listener.stop() and self._rec_listener = None: the listener
\* the attribute names stops if it still runs
StopRecListener ==
    /\ rec_listener' = FALSE
    /\ rec_threads' = IF rec_listener /\ rec_threads > 0
                      THEN rec_threads - 1 ELSE rec_threads

\* _finish_recording(hk), run from the callback queue.  treeview.set
\* raises when the target's row is gone and self.groups[name] raises when
\* the group is gone: what follows in the handler is then not run.
FinishRecording ==
    /\ afterq # <<>> /\ Head(afterq).cb = "finish"
    /\ afterq' = Tail(afterq)
    /\ LET hk     == Head(afterq).hk
           target == recording_target
           shown  == RowExists(treeview, target)
       IN  IF target = NoTarget
           THEN UNCHANGED <<hotkeys, groups, settings, status, recVars>>
           ELSE /\ recording_target' = NoTarget
                /\ StopRecListener
                /\ UNCHANGED recording_mods
                /\ IF Conflict(target, hk, hotkeys, groups)
                   THEN /\ status' = "Conflict"
                        /\ listener' = (shown \/ listener)
                        /\ UNCHANGED <<hotkeys, groups, settings>>
                   ELSE IF target.t = "grp"
                   THEN IF ~Has(groups, target.grp)
                        THEN UNCHANGED <<hotkeys, groups, settings, status, listener>>
                        ELSE /\ groups' = Put(groups, target.grp,
                                    [Get(groups, target.grp) EXCEPT !.hotkey = hk])
                             /\ settings' = Saved(hotkeys, groups')
                             /\ status' = IF shown THEN "info" ELSE status
                             /\ listener' = (shown \/ listener)
                             /\ UNCHANGED hotkeys
                   ELSE /\ hotkeys' = Put(hotkeys, target.num, hk)
                        /\ settings' = Saved(hotkeys', groups)
                        /\ status' = IF shown THEN "info" ELSE status
                        /\ listener' = (shown \/ listener)
                        /\ UNCHANGED groups
    /\ held' = HeldAfterStart(listener, listener')
    /\ UNCHANGED <<levels, funVars, workVars, tree, treeview, scans, rescanning,
                   health_poll_id, timers, probing, call, selection, press, outcome, down>>

\* _cancel_recording, run from the callback queue
CancelRecording ==
    /\ afterq # <<>> /\ Head(afterq).cb = "cancel"
    /\ afterq' = Tail(afterq)
    /\ LET target == recording_target
           shown  == target = NoTarget \/ RowExists(treeview, target)
       IN  /\ recording_target' = NoTarget
           /\ StopRecListener
           /\ status' = IF shown THEN "info" ELSE status
           /\ listener' = (shown \/ listener)
           /\ UNCHANGED recording_mods
    /\ held' = HeldAfterStart(listener, listener')
    /\ UNCHANGED <<dataVars, funVars, workVars, tree, treeview, scans, rescanning,
                   health_poll_id, timers, probing, call, selection, press, outcome, down>>

----------------------------------------------------------------------------
(* The health check and the background rescan it starts *)

AppNums == 1..MaxAppNum
AppNames == {"Body"}

\* the health-check timer fires: _health_check.  Without levels, or during
\* a rescan, the timer is set again; otherwise a probe thread is started.
HealthCheck ==
    /\ timers > 0
    /\ IF levels = <<>> \/ rescanning
       THEN /\ health_poll_id' = TRUE
            /\ timers' = timers
            /\ UNCHANGED probing
       ELSE /\ Pending < MaxPending
            /\ health_poll_id' = FALSE
            /\ timers' = timers - 1
            /\ probing' = probing + 1
    /\ UNCHANGED <<dataVars, funVars, workVars, uiVars, recVars, afterq, rescanning,
                   call, selection, routerVars>>

\* what the host answers for the first level's item when probed: the
\* children query raises, or gives children among the visibility button,
\* another button and a child whose control type cannot be read
ProbedChildren ==
    {[ct |-> "Button", aid |-> "IsLevelVisibleButton", invoke |-> "ok"],
     [ct |-> "Button", aid |-> "other", invoke |-> "ok"],
     [ct |-> "raises", aid |-> "IsLevelVisibleButton", invoke |-> "ok"]}

ProbeAnswers ==
    [children_raises : BOOLEAN, children : SeqsUpTo(ProbedChildren, MaxChildren)]

\* as _probe, but any button counts as the visibility button
ProbeAnyButton(children_raises, children) ==
    ~children_raises /\ \E i \in 1..Len(children) : children[i].ct = "Button"

\* _probe(): whether the item still has its visibility button
_probe(children_raises, children) ==
    ~children_raises /\ \E i \in 1..Len(children) : IsVisibleButton(children[i])

\* _bg: the probe ends with the host's answer and posts its finding
ProbeEnds(answer) ==
    /\ probing > 0
    /\ probing' = probing - 1
    /\ afterq' = Append(afterq, OnResultCb(_probe(answer.children_raises, answer.children)))
    /\ UNCHANGED <<dataVars, funVars, workVars, uiVars, recVars, rescanning,
                   health_poll_id, timers, selection, routerVars>>

ProbeDone == \E answer \in ProbeAnswers : ProbeEnds(answer) /\ UNCHANGED call

\* the same, the host's answer kept in call
ProbeSeen == \E answer \in ProbeAnswers : ProbeEnds(answer) /\ call' = answer

\* _on_result, run from the callback queue: a stale probe starts the
\* rescan thread unless a rescan is running
OnResult ==
    /\ afterq # <<>> /\ Head(afterq).cb = "on_result"
    /\ afterq' = Tail(afterq)
    /\ IF ~Head(afterq).flag /\ ~rescanning
       THEN /\ status' = "info"
            /\ rescanning' = TRUE
            /\ pc' = "read"
       ELSE UNCHANGED <<status, rescanning, pc>>
    /\ _start_health_poll
    /\ UNCHANGED <<dataVars, funVars, old_levels, remap, wk, tree, treeview, scans,
                   recVars, probing, call, selection, routerVars>>

\* what no step of the rescan thread touches
WorkerUnchanged == UNCHANGED <<funVars, uiVars, recVars, health_poll_id, timers, probing, call, selection, routerVars>>

\* _rescan_levels in the thread: old_levels = self.levels
WorkerRead ==
    /\ pc = "read"
    /\ old_levels' = levels
    /\ pc' = "scan"
    /\ UNCHANGED <<dataVars, remap, wk, afterq, rescanning>>
    /\ WorkerUnchanged

\* as WorkerScan, but a scan that finds nothing empties the level list
WorkerScanForgetting ==
    /\ pc = "scan"
    /\ \E scan \in HostScans(AppNums, AppNames, MaxLevels) :
          IF scan = <<>>
          THEN /\ wk' = [wk EXCEPT !.success = FALSE]
               /\ pc' = "finally"
               /\ levels' = <<>>
               /\ UNCHANGED scans
          ELSE /\ scans < MaxScans
               /\ scans' = scans + 1
               /\ wk' = [wk EXCEPT !.new_levels = scan]
               /\ pc' = "assign"
               /\ UNCHANGED levels
    /\ UNCHANGED <<hotkeys, groups, settings, old_levels, remap, afterq, rescanning>>
    /\ UNCHANGED <<funVars, tree, treeview, status, recVars, health_poll_id, timers, probing,
                   call, selection, routerVars>>

\* new_levels = scan_levels(self.tree); a scan that raises or finds nothing
\* (scan = <<>>) makes _rescan_levels return False
WorkerScan ==
    /\ pc = "scan"
    /\ \E scan \in HostScans(AppNums, AppNames, MaxLevels) :
          IF scan = <<>>
          THEN /\ wk' = [wk EXCEPT !.success = FALSE]
               /\ pc' = "finally"
               /\ UNCHANGED scans
          ELSE /\ scans < MaxScans
               /\ scans' = scans + 1
               /\ wk' = [wk EXCEPT !.new_levels = scan]
               /\ pc' = "assign"
    /\ UNCHANGED <<dataVars, old_levels, remap, afterq, rescanning>>
    /\ UNCHANGED <<funVars, tree, treeview, status, recVars, health_poll_id, timers, probing,
                   call, selection, routerVars>>

\* self.levels = new_levels
WorkerAssign ==
    /\ pc = "assign"
    /\ levels' = wk.new_levels
    /\ pc' = "reconcile"
    /\ UNCHANGED <<hotkeys, groups, settings, old_levels, remap, wk, afterq,
                   rescanning>>
    /\ WorkerUnchanged

\* _reconcile_numbers up to its loops: the remap from old_levels and the
\* levels the attribute holds now
WorkerReconcile ==
    /\ pc = "reconcile"
    /\ LET rm == IF old_levels = <<>> THEN <<>> ELSE ComputeRemap(old_levels, levels)
       IN  IF rm = <<>>
           THEN /\ wk' = [wk EXCEPT !.success = TRUE]
                /\ pc' = "finally"
                /\ UNCHANGED remap
           ELSE /\ remap' = rm
                /\ wk' = [wk EXCEPT !.i = 1]
                /\ pc' = "hk_check"
    /\ UNCHANGED <<dataVars, old_levels, afterq, rescanning>>
    /\ WorkerUnchanged

\* the loop over remap.items(): if old_num in self.hotkeys
WorkerHotkeyCheck ==
    /\ pc = "hk_check"
    /\ IF wk.i > Len(remap)
       THEN /\ wk' = [wk EXCEPT !.i = 1, !.size = Len(groups)]
            /\ pc' = "groups"
       ELSE IF Has(hotkeys, remap[wk.i].k)
       THEN /\ pc' = "hk_pop"
            /\ UNCHANGED wk
       ELSE /\ wk' = [wk EXCEPT !.i = wk.i + 1]
            /\ UNCHANGED pc
    /\ UNCHANGED <<dataVars, old_levels, remap, afterq, rescanning>>
    /\ WorkerUnchanged

\* self.hotkeys.pop(old_num); a key that is gone raises, and _rescan_levels
\* returns False
WorkerHotkeyPop ==
    /\ pc = "hk_pop"
    /\ IF Has(hotkeys, remap[wk.i].k)
       THEN /\ wk' = [wk EXCEPT !.popped = Get(hotkeys, remap[wk.i].k)]
            /\ hotkeys' = Del(hotkeys, remap[wk.i].k)
            /\ pc' = "hk_store"
       ELSE /\ wk' = [wk EXCEPT !.success = FALSE]
            /\ pc' = "finally"
            /\ UNCHANGED hotkeys
    /\ UNCHANGED <<levels, groups, settings, old_levels, remap, afterq, rescanning>>
    /\ WorkerUnchanged

\* self.hotkeys[new_num] = the popped value
WorkerHotkeyStore ==
    /\ pc = "hk_store"
    /\ hotkeys' = Put(hotkeys, remap[wk.i].v, wk.popped)
    /\ wk' = [wk EXCEPT !.i = wk.i + 1, !.popped = None]
    /\ pc' = "hk_check"
    /\ UNCHANGED <<levels, groups, settings, old_levels, remap, afterq, rescanning>>
    /\ WorkerUnchanged

\* one round of the loop over self.groups.values(): a dict whose size
\* changed since the loop began raises, and _rescan_levels returns False
WorkerGroup ==
    /\ pc = "groups"
    /\ IF Len(groups) # wk.size
       THEN /\ wk' = [wk EXCEPT !.success = FALSE]
            /\ pc' = "finally"
            /\ UNCHANGED groups
       ELSE IF wk.i > Len(groups)
       THEN /\ pc' = "save"
            /\ UNCHANGED <<wk, groups>>
       ELSE /\ groups' = [groups EXCEPT ![wk.i].v.levels =
                             RemapMembers(groups[wk.i].v.levels, remap)]
            /\ wk' = [wk EXCEPT !.i = wk.i + 1]
            /\ UNCHANGED pc
    /\ UNCHANGED <<levels, hotkeys, settings, old_levels, remap, afterq, rescanning>>
    /\ WorkerUnchanged

\* self._save_settings() and the return of True
WorkerSave ==
    /\ pc = "save"
    /\ settings' = Saved(hotkeys, groups)
    /\ wk' = [wk EXCEPT !.success = TRUE]
    /\ pc' = "finally"
    /\ UNCHANGED <<levels, hotkeys, groups, old_levels, remap, afterq, rescanning>>
    /\ WorkerUnchanged

\* as WorkerFinally, but a rescan that failed leaves the guard set
WorkerFinallyOnSuccess ==
    /\ pc = "finally"
    /\ rescanning' = ~wk.success
    /\ wk' = [IdleWk EXCEPT !.posting = Append(wk.posting,
                     [kind |-> wk.kind, success |-> wk.success, req |-> wk.req])]
    /\ pc' = "idle"
    /\ UNCHANGED <<dataVars, old_levels, remap, afterq>>
    /\ WorkerUnchanged

\* finally: self._rescanning = False; the thread has _update_ui left to post
WorkerFinally ==
    /\ pc = "finally"
    /\ rescanning' = FALSE
    /\ wk' = [IdleWk EXCEPT !.posting = Append(wk.posting,
                     [kind |-> wk.kind, success |-> wk.success, req |-> wk.req])]
    /\ pc' = "idle"
    /\ UNCHANGED <<dataVars, old_levels, remap, afterq>>
    /\ WorkerUnchanged

\* the thread's last statement: self.root.after(0, _update_ui) in the
\* thread of the health check; in the thread of _auto_rescan_and_retry
\* self.root.after(0, self._notify_stale) or self.root.after(0, _finish)
WorkerPost ==
    /\ wk.posting # <<>>
    /\ LET done == Head(wk.posting)
       IN  afterq' = Append(afterq,
                        IF done.kind = "health" THEN UpdateUiCb(done.success)
                        ELSE IF done.success THEN RetryCb(done.req)
                        ELSE NotifyStaleCb)
    /\ wk' = [wk EXCEPT !.posting = Tail(wk.posting)]
    /\ UNCHANGED <<dataVars, old_levels, remap, pc, rescanning>>
    /\ WorkerUnchanged

\* _update_ui, run from the callback queue
UpdateUi ==
    /\ afterq # <<>> /\ Head(afterq).cb = "update_ui"
    /\ afterq' = Tail(afterq)
    /\ IF Head(afterq).flag
       THEN LET p == Populate(groups, levels)
            IN  /\ treeview' = p.rows
                /\ status' = IF p.ok THEN "info" ELSE status
       ELSE UNCHANGED <<treeview, status>>
    /\ UNCHANGED <<dataVars, funVars, workVars, tree, scans, recVars, rescanning,
                   health_poll_id, timers, probing, call, selection, routerVars>>

----------------------------------------------------------------------------
(* The application, from a first start without saved hotkeys or groups *)

Init == Constructed(<<>>, <<>>)

Next ==
    \/ \E scan \in HostScans(AppNums, AppNames, MaxLevels) : ConnectFast(scan)
    \/ ConnectError
    \/ \E scan \in HostScans(AppNums, AppNames, MaxLevels) : ConnectSlow(scan)
    \/ OnCreateGroup
    \/ OnUngroup
    \/ OnSetHotkey
    \/ OnClearHotkey
    \/ OnRecPress
    \/ FinishRecording
    \/ CancelRecording
    \/ HealthCheck
    \/ ProbeDone
    \/ OnResult
    \/ WorkerRead
    \/ WorkerScan
    \/ WorkerAssign
    \/ WorkerReconcile
    \/ WorkerHotkeyCheck
    \/ WorkerHotkeyPop
    \/ WorkerHotkeyStore
    \/ WorkerGroup
    \/ WorkerSave
    \/ WorkerFinally
    \/ WorkerPost
    \/ UpdateUi

Spec == Init /\ [][Next]_vars

\* the hotkeys in force: those of the levels and those the groups carry
LiveHotkeys ==
    [i \in 1..Len(hotkeys) |-> hotkeys[i].v] \o
    SelectSeq([i \in 1..Len(groups) |-> groups[i].v.hotkey], LAMBDA h : h # None)

\* C7: no two live hotkeys, of levels or of groups, are equal.
C7_NoDuplicateHotkeys == Injective(LiveHotkeys)

\* the step is _finish_recording(hk) for a recording that is still open
FinishStep(hk) ==
    /\ afterq # <<>>
    /\ Head(afterq) = FinishCb(hk)
    /\ afterq' = Tail(afterq)
    /\ recording_target # NoTarget

\* hk is the hotkey of a level or group other than the recording target
HeldByOther(hk) ==
    \/ \E i \in 1..Len(hotkeys) :
          hotkeys[i].v = hk /\ LevelTarget(hotkeys[i].k) # recording_target
    \/ \E i \in 1..Len(groups) :
          groups[i].v.hotkey = hk /\ GroupTarget(groups[i].k) # recording_target

\* hk is the hotkey the recording target has now
HeldByTarget(hk) ==
    \/ \E i \in 1..Len(hotkeys) :
          hotkeys[i].v = hk /\ LevelTarget(hotkeys[i].k) = recording_target
    \/ \E i \in 1..Len(groups) :
          groups[i].v.hotkey = hk /\ GroupTarget(groups[i].k) = recording_target

\* C8: when _finish_recording gets a hotkey that another level or another
\* group holds, it reports a Conflict and leaves the hotkey map and every
\* group as they were; when only the target itself holds the hotkey, there
\* is no Conflict and the assignments stay as they were.
C8_ConflictAborts ==
    [][\A hk \in HKs :
          /\ (FinishStep(hk) /\ HeldByOther(hk)) =>
                /\ hotkeys' = hotkeys
                /\ groups' = groups
                /\ status' = "Conflict"
          /\ (FinishStep(hk) /\ HeldByTarget(hk) /\ ~HeldByOther(hk)) =>
                /\ hotkeys' = hotkeys
                /\ groups' = groups
                /\ status' # "Conflict"]_vars

\* a recording has just been refused with a Conflict: a level holds a
\* hotkey and the recording is closed
C8_Witness ==
    /\ status = "Conflict"
    /\ hotkeys # <<>>
    /\ recording_target = NoTarget

----------------------------------------------------------------------------
(* The hotkey router: the global listener thread matches a key press       *)
(* against the maps and posts the toggle; the owner thread toggles, and a  *)
(* failed toggle starts _auto_rescan_and_retry.                            *)

\* the keys the user presses while the window is in the background
RouterKeys == {KeyCode("a", 65), KeyOf("shift")}

\* the modifier flag a key sets or clears
FlagOf(key) ==
    IF _is_ctrl(key) THEN {"ctrl"}
    ELSE IF _is_alt(key) THEN {"alt"}
    ELSE IF _is_shift(key) THEN {"shift"}
    ELSE {}

\* the listener thread died of an exception in its callback
DeadPress == [IdlePress EXCEPT !.at = "dead"]

\* _on_hotkey_press on the listener thread, up to the first loop
PressEvent(key) ==
    /\ listener /\ press.at = "idle"
    /\ Pending < MaxPending
    /\ IF _is_modifier(key)
       THEN /\ held' = held \cup FlagOf(key)
            /\ UNCHANGED press
       ELSE /\ press' = [at |-> "groups", key |-> key, seen |-> {}, size |-> Len(groups)]
            /\ UNCHANGED held
    /\ UNCHANGED <<dataVars, funVars, workVars, uiVars, recVars, bgVars, call, selection,
                   outcome>>

\* the same, with nothing said about the keys that are down
PressBegin(key) == PressEvent(key) /\ UNCHANGED down

\* the entries a dict iterator has yet to yield
Unseen(d, seen) == SelectSeq(d, LAMBDA e : e.k \notin seen)

\* one round of  for grp_name, grp in self.groups.items():  a dict whose
\* size changed since the loop began raises RuntimeError in the listener
\* thread
PressGroups ==
    /\ press.at = "groups"
    /\ LET rest == Unseen(groups, press.seen)
       IN  IF Len(groups) # press.size
           THEN /\ press' = DeadPress
                /\ UNCHANGED afterq
           ELSE IF rest = <<>>
           THEN /\ press' = [press EXCEPT !.at = "hotkeys", !.seen = {},
                                          !.size = Len(hotkeys)]
                /\ UNCHANGED afterq
           ELSE IF hotkey_matches(rest[1].v.hotkey, press.key, "ctrl" \in held,
                                  "alt" \in held, "shift" \in held)
           THEN /\ afterq' = Append(afterq,
                                ToggleCb(GroupRequest(rest[1].v.levels, rest[1].k)))
                /\ press' = IdlePress
           ELSE /\ press' = [press EXCEPT !.seen = press.seen \cup {rest[1].k}]
                /\ UNCHANGED afterq
    /\ UNCHANGED <<dataVars, funVars, workVars, uiVars, recVars, rescanning,
                   health_poll_id, timers, probing, call, selection, held, outcome, down>>

\* one round of  for num, hk in self.hotkeys.items()
PressHotkeys ==
    /\ press.at = "hotkeys"
    /\ LET rest == Unseen(hotkeys, press.seen)
       IN  IF Len(hotkeys) # press.size
           THEN /\ press' = DeadPress
                /\ UNCHANGED afterq
           ELSE IF rest = <<>>
           THEN /\ press' = IdlePress
                /\ UNCHANGED afterq
           ELSE IF hotkey_matches(rest[1].v, press.key, "ctrl" \in held,
                                  "alt" \in held, "shift" \in held)
           THEN /\ afterq' = Append(afterq, ToggleCb(LevelRequest(rest[1].k)))
                /\ press' = IdlePress
           ELSE /\ press' = [press EXCEPT !.seen = press.seen \cup {rest[1].k}]
                /\ UNCHANGED afterq
    /\ UNCHANGED <<dataVars, funVars, workVars, uiVars, recVars, rescanning,
                   health_poll_id, timers, probing, call, selection, held, outcome, down>>

\* _on_hotkey_release on the listener thread
ReleaseEvent(key) ==
    /\ listener /\ press.at = "idle"
    /\ held' = held \ FlagOf(key)
    /\ UNCHANGED <<dataVars, funVars, workVars, uiVars, recVars, bgVars, call, selection,
                   press, outcome>>

Release(key) == ReleaseEvent(key) /\ UNCHANGED down

\* what the host answers for the item of a level now: the item is stale
\* (children() raises) or it has its visibility button
LiveItems ==
    {[children_raises |-> TRUE, children |-> <<>>],
     [children_raises |-> FALSE,
      children |-> <<[ct |-> "Button", aid |-> "IsLevelVisibleButton", invoke |-> "ok"]>>]}

\* toggle_visibility(lvl) for the level with number n
Toggles(n, host) ==
    toggle_visibility([item |-> TRUE, vis_btn |-> TRUE],
                      host[n].children_raises, host[n].children).ret

\* for lvl in self.levels: if lvl["number"] == num
Found(n) == \E i \in 1..Len(levels) : levels[i].number = n

\* the members of a request that were toggled, and whether one failed
Toggled(nums, host) ==
    Len(SelectSeq(nums, LAMBDA n : Found(n) /\ Toggles(n, host)))
Failed(nums, host) == \E i \in 1..Len(nums) : Found(nums[i]) /\ ~Toggles(nums[i], host)

\* _auto_rescan_and_retry: nothing at all during a rescan; otherwise the
\* thread is started
_auto_rescan_and_retry(req) ==
    IF rescanning
    THEN UNCHANGED <<status, rescanning, pc, wk>>
    ELSE /\ rescanning' = TRUE
         /\ status' = "info"
         /\ pc' = "read"
         /\ wk' = [wk EXCEPT !.kind = "auto", !.req = req]

_notify_stale ==
    /\ status' = "stale"
    /\ UNCHANGED <<rescanning, pc, wk>>

\* the toggle just run, for the record
Ran(by, req, retry, toggled, failed) ==
    outcome' = [by |-> by, req |-> req, retry |-> retry, toggled |-> toggled,
                failed |-> failed]

_hotkey_toggle(level_number, retry, host) ==
    /\ Ran("hotkey", LevelRequest(level_number), retry,
           Toggled(<<level_number>>, host), Failed(<<level_number>>, host))
    /\ IF ~Found(level_number) \/ Toggles(level_number, host)
       THEN /\ status' = "info"
            /\ UNCHANGED <<rescanning, pc, wk>>
       ELSE IF retry THEN _auto_rescan_and_retry(LevelRequest(level_number))
       ELSE _notify_stale

_hotkey_toggle_group(level_numbers, group_name, retry, host) ==
    /\ Ran("hotkey", GroupRequest(level_numbers, group_name), retry,
           Toggled(level_numbers, host), Failed(level_numbers, host))
    /\ IF Failed(level_numbers, host) /\ Toggled(level_numbers, host) = 0
       THEN IF retry
            THEN _auto_rescan_and_retry(GroupRequest(level_numbers, group_name))
            ELSE _notify_stale
       ELSE /\ status' = "info"
            /\ UNCHANGED <<rescanning, pc, wk>>

\* the request of a callback, toggled
HotkeyToggleRequest(req, retry, host) ==
    IF req.num # 0 THEN _hotkey_toggle(req.num, retry, host)
    ELSE _hotkey_toggle_group(req.nums, req.name, retry, host)

\* the lambda posted by _on_hotkey_press, run from the callback queue
OnToggle ==
    /\ afterq # <<>> /\ Head(afterq).cb = "toggle"
    /\ afterq' = Tail(afterq)
    /\ \E host \in [AppNums -> LiveItems] : HotkeyToggleRequest(Head(afterq).req, TRUE, host)
    /\ UNCHANGED <<dataVars, funVars, old_levels, remap, tree, treeview, scans, recVars,
                   health_poll_id, timers, probing, call, selection, held, press, down>>

\* _finish, run from the callback queue: the tree view is filled again and
\* the request is retried; a row that cannot be inserted ends the callback
\* before the retry
OnRetry ==
    /\ afterq # <<>> /\ Head(afterq).cb = "retry"
    /\ afterq' = Tail(afterq)
    /\ LET p == Populate(groups, levels)
       IN  /\ treeview' = p.rows
           /\ IF p.ok
              THEN \E host \in [AppNums -> LiveItems] :
                       HotkeyToggleRequest(Head(afterq).req, FALSE, host)
              ELSE UNCHANGED <<status, rescanning, pc, wk, outcome>>
    /\ UNCHANGED <<dataVars, funVars, old_levels, remap, tree, scans, recVars,
                   health_poll_id, timers, probing, call, selection, held, press, down>>

\* self._notify_stale, run from the callback queue
OnNotifyStale ==
    /\ afterq # <<>> /\ Head(afterq).cb = "notify_stale"
    /\ afterq' = Tail(afterq)
    /\ _notify_stale
    /\ UNCHANGED <<dataVars, funVars, old_levels, remap, tree, treeview, scans, recVars,
                   health_poll_id, timers, probing, call, selection, routerVars>>

_get_selected_level_numbers(picked) == SelectedNums(Selection(treeview, picked), groups)

\* the Toggle button or a double click: _toggle_selected
ToggleSelected(picked, host) ==
    LET nums == _get_selected_level_numbers(picked)
    IN  /\ nums # <<>>
        /\ Ran("ui", GroupRequest(nums, NoGroup), FALSE, Toggled(nums, host), Failed(nums, host))
        /\ status' = "info"
        /\ UNCHANGED <<dataVars, funVars, workVars, tree, treeview, scans, recVars, bgVars,
                       call, selection, held, press, down>>

OnToggleSelected ==
    \E row \in 1..Len(treeview) : \E host \in [AppNums -> LiveItems] :
        ToggleSelected({row}, host)

\* the settings file the program starts from: a hotkey for level 1, or a
\* group of levels 1 and 2 with the same hotkey
RouterLoaded ==
    {[hotkeys |-> <<[k |-> 1, v |-> HK2]>>, groups |-> <<>>],
     [hotkeys |-> <<>>,
      groups |-> <<[k |-> GroupName(<<"Body", "Body">>, 0),
                    v |-> [levels |-> <<1, 2>>, hotkey |-> HK2]]>>]}

InitRouter == \E loaded \in RouterLoaded : Constructed(loaded.hotkeys, loaded.groups)

NextRouter ==
    \/ \E scan \in HostScans(AppNums, AppNames, MaxLevels) : ConnectSlow(scan)
    \/ WorkerRead
    \/ WorkerScan
    \/ WorkerAssign
    \/ WorkerReconcile
    \/ WorkerHotkeyCheck
    \/ WorkerHotkeyPop
    \/ WorkerHotkeyStore
    \/ WorkerGroup
    \/ WorkerSave
    \/ WorkerFinally
    \/ WorkerPost
    \/ \E key \in RouterKeys : PressBegin(key)
    \/ PressGroups
    \/ PressHotkeys
    \/ \E key \in RouterKeys : Release(key)
    \/ OnToggle
    \/ OnRetry
    \/ OnNotifyStale
    \/ OnToggleSelected

SpecRouter == InitRouter /\ [][NextRouter]_vars

\* a callback that toggles is taken from the queue and its toggle runs
ToggleRuns ==
    /\ afterq # <<>> /\ afterq' = Tail(afterq)
    /\ \/ Head(afterq).cb = "toggle"
       \/ Head(afterq).cb = "retry" /\ Populate(groups, levels).ok

\* C15: when a toggle asked for by a hotkey fails (for a group: when a
\* member fails), a rescan that will retry this request is under way after
\* the step; when the retry fails, the stale notification is shown and no
\* rescan is started.
C15_FailedHotkeyToggleRetried ==
    [][(ToggleRuns /\ outcome'.failed) =>
           IF Head(afterq).cb = "toggle"
           THEN rescanning' /\ pc' # "idle" /\ wk'.kind = "auto"
                /\ wk'.req = Head(afterq).req
           ELSE status' = "stale" /\ UNCHANGED <<rescanning, pc, wk>>]_vars

\* C16: when a toggle from the management window fails for every level it
\* was asked for, a rescan that will retry it is under way after the step.
C16_FailedUiToggleRetried ==
    [][(outcome' # outcome /\ outcome'.by = "ui" /\ outcome'.failed
            /\ outcome'.toggled = 0) =>
           (rescanning' /\ pc' # "idle" /\ wk'.kind = "auto"
                /\ wk'.req.nums = outcome'.req.nums)]_vars

\* the level list is the new scan's while a number the scan changed is
\* still a key of the hotkey map or a member of a group
Intermediate ==
    /\ pc \in {"reconcile", "hk_check", "hk_pop", "hk_store", "groups"}
    /\ LET rm == IF old_levels = <<>> THEN <<>> ELSE ComputeRemap(old_levels, levels)
       IN  \E i \in 1..Len(rm) :
               \/ Has(hotkeys, rm[i].k)
               \/ \E g \in 1..Len(groups) : rm[i].k \in Range(groups[g].v.levels)

\* the listener thread reads the maps to match a key press
MatchStep == press.at \in {"groups", "hotkeys"} /\ press' # press

\* C19: no key press is matched, and no posted toggle is run, while the
\* level list is already the new scan's and the hotkey map or a group still
\* carries a number the scan changed.
C19_RescanAtomic == [][(MatchStep \/ ToggleRuns) => ~Intermediate]_vars

\* C20: while the listener thread iterates the group map or the hotkey map
\* for a key press, neither map changes.
C20_NoMutationWhileMatching ==
    [][press.at \in {"groups", "hotkeys"} => UNCHANGED <<hotkeys, groups>>]_vars

----------------------------------------------------------------------------
(* The health check next to the hotkey of one level: both callers of       *)
(* _rescan_levels in a thread, with the callbacks and threads scheduled    *)
(* fairly.                                                                 *)

HealthKeys == {KeyCode("a", 65)}

InitHealth == Constructed(<<[k |-> 1, v |-> HK2]>>, <<>>)

\* the steps of the rescan thread
WorkerStep ==
    \/ WorkerRead
    \/ WorkerScan
    \/ WorkerAssign
    \/ WorkerReconcile
    \/ WorkerHotkeyCheck
    \/ WorkerHotkeyPop
    \/ WorkerHotkeyStore
    \/ WorkerGroup
    \/ WorkerSave
    \/ WorkerFinally
    \/ WorkerPost

\* the callbacks the main loop runs
CallbackStep ==
    \/ OnResult
    \/ UpdateUi
    \/ OnToggle
    \/ OnRetry
    \/ OnNotifyStale

NextHealth ==
    \/ \E scan \in HostScans(AppNums, AppNames, MaxLevels) : ConnectSlow(scan)
    \/ HealthCheck
    \/ ProbeDone
    \/ WorkerStep
    \/ CallbackStep
    \/ \E key \in HealthKeys : PressBegin(key)
    \/ PressGroups
    \/ PressHotkeys

SpecHealth ==
    /\ InitHealth /\ [][NextHealth]_vars
    /\ WF_vars(HealthCheck) /\ WF_vars(ProbeDone)
    /\ WF_vars(WorkerStep) /\ WF_vars(CallbackStep)
    /\ WF_vars(PressGroups) /\ WF_vars(PressHotkeys)

\* the rescan thread's scan found nothing
ZeroItems == pc = "finally" /\ wk.new_levels = <<>> /\ ~wk.success

\* C17: a rescan that produced zero items is followed by the stale
\* notification.
C17_ZeroItemsNotified == ZeroItems ~> (status = "stale")

\* C18: a step of a background rescan thread changes neither the level
\* list, the hotkey map, the group map nor the settings file.
C18_WorkersOnlyScan ==
    [][(pc # "idle" /\ <<pc, wk>>' # <<pc, wk>>) =>
           UNCHANGED <<levels, hotkeys, groups, settings>>]_vars

----------------------------------------------------------------------------
(* Recording against the live listener: the window's handlers and the      *)
(* callbacks the recording listeners post, without the background rescan   *)

\* Set Hotkey while up to MaxRecPending threads and callbacks have yet to act
OnSetHotkeyAgain ==
    /\ \E i \in 1..Len(treeview) : SetHotkeyWithin(treeview[i], MaxRecPending)
    /\ UNCHANGED <<dataVars, funVars, workVars, tree, treeview, scans, bgVars, call,
                   selection, routerVars>>

NextRecording ==
    \/ \E scan \in HostScans(AppNums, AppNames, MaxLevels) : ConnectSlow(scan)
    \/ OnCreateGroup
    \/ OnUngroup
    \/ OnSetHotkeyAgain
    \/ OnClearHotkey
    \/ OnRecPress
    \/ FinishRecording
    \/ CancelRecording

SpecRecording == Init /\ [][NextRecording]_vars

\* C21: the global hotkey listener does not run while a recording listener
\* runs.
C21_OneListenerActive == ~(listener /\ rec_threads > 0)

\* C22: when the callback of the trigger key or of Esc ends a recording,
\* the global hotkey listener runs afterwards.
C22_ListenerRunsAfterRecording ==
    [][(recording_target # NoTarget /\ recording_target' = NoTarget) => listener']_vars

----------------------------------------------------------------------------
(* _on_hotkey_press on drawn maps: the listener thread alone, the maps as   *)
(* the settings file gave them                                             *)

\* the keys pressed: a letter and a modifier
PressKeys == {KeyCode("a", 65), KeyOf("ctrl_l")}

\* hotkey maps of up to two levels; two levels may hold the same hotkey
PressHotkeyMaps ==
    {d \in SeqsUpTo([k : 1..2, v : HKs], 2) :
        \A i, j \in 1..Len(d) : d[i].k = d[j].k => i = j}

\* the loaded groups, each with no hotkey or one of the hotkeys
PressGroupMaps ==
    UNION {{[i \in 1..Len(g) |-> [k |-> g[i].k, v |-> [g[i].v EXCEPT !.hotkey = h[i]]]] :
               h \in [1..Len(g) -> {None} \cup HKs]} : g \in LoadedGroups}

InitPress ==
    \E hks \in PressHotkeyMaps : \E grps \in PressGroupMaps : Constructed(hks, grps)

NextPress ==
    \/ \E key \in PressKeys : PressBegin(key)
    \/ PressGroups
    \/ PressHotkeys
    \/ \E key \in PressKeys : Release(key)

SpecPress == InitPress /\ [][NextPress]_vars

\* the key of the press under way matches hotkey hk with the flags held
MatchesNow(hk) ==
    hotkey_matches(hk, press.key, "ctrl" \in held, "alt" \in held, "shift" \in held)

\* the groups and the levels whose hotkey the key of the press matches
MatchingGroups == {g \in 1..Len(groups) : MatchesNow(groups[g].v.hotkey)}
MatchingLevels == {i \in 1..Len(hotkeys) : MatchesNow(hotkeys[i].v)}

\* what a step added to the callback queue
Posted == SubSeq(afterq', Len(afterq) + 1, Len(afterq'))

\* C23: a step of a key press that does not end it posts nothing, and while
\* a group matches the press stays with the groups; the step that ends
\* the press posts exactly one request, for the members of a matching
\* group, when a group matches; otherwise at most one request, for a level
\* whose hotkey matches; and nothing when nothing matches.
C23_GroupsFirstOneRequest ==
    [][press.at \in {"groups", "hotkeys"} =>
           IF press'.at = "idle"
           THEN IF MatchingGroups # {}
                THEN \E g \in MatchingGroups :
                         Posted = <<ToggleCb(GroupRequest(groups[g].v.levels, groups[g].k))>>
                ELSE \/ Posted = <<>>
                     \/ \E i \in MatchingLevels :
                            Posted = <<ToggleCb(LevelRequest(hotkeys[i].k))>>
           ELSE /\ Posted = <<>>
                /\ MatchingGroups # {} => press'.at = "groups"]_vars

----------------------------------------------------------------------------
(* _on_hotkey_press next to the window's group handlers *)

InitPressUi == \E grps \in LoadedGroups : Constructed(<<>>, WithHotkey(grps, HK2))

NextPressUi ==
    \/ \E scan \in HostScans(AppNums, AppNames, MaxGroupLevels) : ConnectSlow(scan)
    \/ OnUngroup
    \/ PressBegin(KeyCode("a", 65))
    \/ PressGroups
    \/ PressHotkeys

SpecPressUi == InitPressUi /\ [][NextPressUi]_vars

----------------------------------------------------------------------------
(* connect_levels_panel *)

\* window class names of the host, and the 8-character identifiers cached
\* for them; NoGuid is None, StaleGuid names a window that is gone
PanelA == "HwndWrapper[DefaultDomain;;ee99ee78-aaaa]"
PanelB == "HwndWrapper[DefaultDomain;;ab12cd34-bbbb]"
Frame == "AfxFrameOrView140u"
Classes == {PanelA, PanelB, Frame}
NoGuid == ""
StaleGuid == "0badc0de"
Guids == {"ee99ee78", "ab12cd34", StaleGuid}

\* cls.split(';'), each part stripped of "]" and blanks
Parts(cls) ==
    IF cls = PanelA THEN <<"HwndWrapper[DefaultDomain", "", "ee99ee78-aaaa">>
    ELSE IF cls = PanelB THEN <<"HwndWrapper[DefaultDomain", "", "ab12cd34-bbbb">>
    ELSE <<cls>>

\* len(part) >= 8 and '-' in part
LooksLikeGuid(part) == part \in {"ee99ee78-aaaa", "ab12cd34-bbbb"}

\* part[:8]
First8(part) ==
    IF part = "ee99ee78-aaaa" THEN "ee99ee78"
    ELSE IF part = "ab12cd34-bbbb" THEN "ab12cd34"
    ELSE IF part = "HwndWrapper[DefaultDomain" THEN "HwndWrap"
    ELSE IF part = Frame THEN "AfxFrame"
    ELSE part

\* sub in cls, for the substrings the function looks for
Contains(cls, sub) ==
    IF sub = "HwndWrapper" THEN cls \in {PanelA, PanelB}
    ELSE IF sub = "ee99ee78" THEN cls = PanelA
    ELSE IF sub = "ab12cd34" THEN cls = PanelB
    ELSE FALSE

\* as ExtractGuid, but no identifier is taken from the class name
ExtractNothing(cls, cached) == cached

\* the loop of lines 164-168: the first part that looks like a GUID gives
\* the identifier; without one the cache keeps its value
ExtractGuid(cls, cached) ==
    LET parts == Parts(cls)
        hits  == {k \in 1..Len(parts) : LooksLikeGuid(parts[k])}
    IN  IF hits = {} THEN cached
        ELSE First8(parts[CHOOSE k \in hits : \A h \in hits : k <= h])

\* _find_levels_by_guid: the last child window whose class holds the
\* identifier, 0 for None
_find_levels_by_guid(windows, guid_substr) ==
    LET hits == {k \in 1..Len(windows) : Contains(windows[k].cls, guid_substr)}
    IN  IF hits = {} THEN 0 ELSE CHOOSE k \in hits : \A h \in hits : h <= k

\* find_wrappers: the visible HwndWrapper children, in enumeration order
Wrappers(windows) ==
    SelectSeq([k \in 1..Len(windows) |-> k],
              LAMBDA k : Contains(windows[k].cls, "HwndWrapper") /\ windows[k].visible)

\* as connect_levels_panel, but a cached identifier whose window has no
\* level tree ends the search
ConnectCachedOnly(mc, windows, cached, persisted) ==
    LET hwnd == _find_levels_by_guid(windows, cached)
    IN  IF mc /\ cached # NoGuid /\ hwnd # 0 /\ windows[hwnd].probe = "tree"
        THEN [panel |-> hwnd, tree |-> TRUE, err |-> "", cached |-> cached,
              persisted |-> persisted, probed |-> <<>>, fast |-> TRUE, raised |-> FALSE]
        ELSE [panel |-> 0, tree |-> FALSE, err |-> "Levels panel not found.",
              cached |-> NoGuid, persisted |-> persisted, probed |-> <<>>,
              fast |-> FALSE, raised |-> FALSE]

\* connect_levels_panel(): mc is whether _find_mastercam_hwnd finds the
\* host's window, windows are its child windows (class, visibility and what
\* the UIA probe of the window does: it finds the level tree, finds none or
\* raises), cached is the global _cached_guid and persisted the
\* "levels_guid" of the settings file.  The result: the window returned as
\* the panel (0 for None), whether a tree is returned, the error text, the
\* global and the settings file afterwards, the windows probed by the slow
\* path in order, and whether the fast path gave the result.
connect_levels_panel(mc, windows, cached, persisted) ==
    IF ~mc
    THEN [panel |-> 0, tree |-> FALSE, err |-> "Mastercam not found.",
          cached |-> cached, persisted |-> persisted, probed |-> <<>>,
          fast |-> FALSE, raised |-> FALSE]
    ELSE LET loaded == IF cached = NoGuid THEN persisted ELSE cached
             hwnd   == IF loaded = NoGuid THEN 0 ELSE _find_levels_by_guid(windows, loaded)
         IN  IF hwnd # 0 /\ windows[hwnd].probe = "tree"
             THEN [panel |-> hwnd, tree |-> TRUE, err |-> "", cached |-> loaded,
                   persisted |-> persisted, probed |-> <<>>, fast |-> TRUE,
                   raised |-> FALSE]
             ELSE LET ws == Wrappers(windows)
                      F[i \in 0..Len(ws)] ==
                          IF i = 0
                          THEN [panel |-> 0, tree |-> FALSE,
                                err |-> "Levels panel not found.",
                                cached |-> NoGuid, persisted |-> persisted,
                                probed |-> <<>>, fast |-> FALSE, raised |-> FALSE]
                          ELSE IF F[i-1].tree THEN F[i-1]
                          ELSE IF windows[ws[i]].probe = "tree"
                          THEN LET guid == ExtractGuid(windows[ws[i]].cls, NoGuid)
                               IN  [panel |-> ws[i], tree |-> TRUE, err |-> "",
                                    cached |-> guid,
                                    persisted |-> IF guid # NoGuid THEN guid
                                                  ELSE persisted,
                                    probed |-> Append(F[i-1].probed, ws[i]),
                                    fast |-> FALSE, raised |-> FALSE]
                          ELSE [F[i-1] EXCEPT !.probed = Append(F[i-1].probed, ws[i])]
                  IN  F[Len(ws)]

(* The function called twice on the same host, from drawn caches *)

HostWindows ==
    {w \in SeqsUpTo([cls : Classes, visible : BOOLEAN,
                     probe : {"tree", "no_tree", "raises"}], MaxWindows) :
        \A i, j \in 1..Len(w) : (w[i].cls = w[j].cls /\ w[i].cls # Frame) => i = j}

NoResult ==
    [panel |-> 0, tree |-> FALSE, err |-> "", cached |-> NoGuid, persisted |-> NoGuid,
     probed |-> <<>>, fast |-> FALSE, raised |-> FALSE]

InitConnect ==
    /\ call \in [mc : BOOLEAN, windows : HostWindows,
                 cached : {NoGuid} \cup Guids, persisted : {NoGuid} \cup Guids,
                 first : {NoResult}, second : {NoResult}]
    /\ selection = {}
    /\ pc = "start"
    /\ levels = <<>>
    /\ hotkeys = <<>>
    /\ groups = <<>>
    /\ settings = Saved(<<>>, <<>>)
    /\ old_levels = <<>>
    /\ remap = <<>>
    /\ ret = 0
    /\ pre = [hotkeys |-> <<>>, groups |-> <<>>, settings |-> Saved(<<>>, <<>>)]
    /\ once = [hotkeys |-> <<>>, groups |-> <<>>]
    /\ tree = FALSE
    /\ treeview = <<>>
    /\ status = "info"
    /\ scans = 0
    /\ Started

ConnectFrame ==
    UNCHANGED <<dataVars, funVars, old_levels, remap, wk, uiVars, recVars, bgVars,
                selection, routerVars>>

ConnectOnce ==
    /\ pc = "start"
    /\ call' = [call EXCEPT !.first =
                   connect_levels_panel(call.mc, call.windows, call.cached, call.persisted)]
    /\ pc' = "once"
    /\ ConnectFrame

ConnectTwice ==
    /\ pc = "once"
    /\ call' = [call EXCEPT !.second =
                   connect_levels_panel(call.mc, call.windows, call.first.cached,
                                        call.first.persisted)]
    /\ pc' = "twice"
    /\ ConnectFrame

NextConnect == ConnectOnce \/ ConnectTwice

SpecConnect == InitConnect /\ [][NextConnect]_vars

\* the visible wrapper windows whose probe finds the level tree
OpenPanels ==
    {k \in 1..Len(call.windows) :
        /\ Contains(call.windows[k].cls, "HwndWrapper")
        /\ call.windows[k].visible
        /\ call.windows[k].probe = "tree"}

\* C24: connect_levels_panel does not raise and returns either a panel and
\* a tree with no error, or no panel and no tree with an error text; while
\* one visible wrapper window holds the level tree and the host's window is
\* found, a panel is returned, whatever the probes of the cached window
\* and of the other windows do.
C24_PanelOrError ==
    pc # "start" =>
        LET r == call.first
        IN  /\ ~r.raised
            /\ \/ r.panel # 0 /\ r.tree /\ r.err = ""
               \/ r.panel = 0 /\ ~r.tree /\ r.err # ""
            /\ r.panel # 0 => call.windows[r.panel].probe = "tree"
            /\ r.err # "" => (~call.mc \/ OpenPanels = {})

\* the cached window's probe raises, the first wrapper's probe raises as
\* well, and the second wrapper is returned
C24_Witness ==
    /\ pc = "once"
    /\ call.mc /\ call.cached # NoGuid
    /\ Len(call.windows) = 2
    /\ call.windows[1].probe = "raises" /\ call.windows[1].visible
    /\ _find_levels_by_guid(call.windows, call.cached) = 1
    /\ call.first.panel = 2
    /\ call.first.probed = <<1, 2>>

\* the identifier the first call starts from, and the window it names
Loaded == IF call.cached = NoGuid THEN call.persisted ELSE call.cached

CachedWindow ==
    IF Loaded = NoGuid THEN 0 ELSE _find_levels_by_guid(call.windows, Loaded)

CachedPanelOpen == CachedWindow # 0 /\ call.windows[CachedWindow].probe = "tree"

\* C25: with the host's window found, a cached identifier (in memory, else
\* persisted) whose window holds the level tree gives that window with no
\* probing; otherwise every visible wrapper window is probed in order up to
\* the first that holds the tree, so an open panel is found whatever the
\* cache held; a panel found by probing leaves its identifier in memory and
\* in the settings file, and the next connect on the same host returns the
\* same panel by the fast path; with no panel found the cache is empty.
C25_CachedThenProbe ==
    (pc = "twice" /\ call.mc) =>
        LET r == call.first
            n == call.second
        IN  /\ CachedPanelOpen =>
                r.fast /\ r.panel = CachedWindow /\ r.probed = <<>>
            /\ ~CachedPanelOpen =>
                /\ ~r.fast
                /\ OpenPanels # {} => r.panel = CHOOSE k \in OpenPanels : \A h \in OpenPanels : k <= h
                /\ r.probed = SelectSeq(Wrappers(call.windows),
                                        LAMBDA k : r.panel = 0 \/ k <= r.panel)
                /\ r.panel # 0 =>
                      /\ r.cached # NoGuid
                      /\ Contains(call.windows[r.panel].cls, r.cached)
                      /\ r.persisted = r.cached
                      /\ n.fast /\ n.panel = r.panel /\ n.probed = <<>>
                /\ r.panel = 0 => r.cached = NoGuid

\* a stale identifier in memory, the panel is the second wrapper probed,
\* and the second connect returns it by the fast path
C25_Witness ==
    /\ pc = "twice"
    /\ call.cached = StaleGuid
    /\ call.first.probed = <<1, 2>>
    /\ call.first.panel = 2
    /\ call.first.persisted = "ab12cd34"
    /\ call.second.fast /\ call.second.panel = 2

----------------------------------------------------------------------------
(* scan_levels *)

\* item.window_text() of a level item and of another item
LevelText == "Mastercam.LevelTreeItem"
OtherText == "Mastercam.LevelSetItem"

\* the texts of Edit children; "" also stands for a child without a value
FieldTexts == {"", "1", "2", "Top", "Set"}

\* v.isdigit()
IsDigit(v) == v \in {"1", "2"}

\* f"Level {number}"
DefaultName(number) == IF number = "1" THEN "Level 1" ELSE "Level 2"

\* the children of a tree item: text fields, buttons, and children whose
\* query raises
Fields ==
    [ct : {"Edit"}, v : FieldTexts, aid : {""}, raises : {FALSE}]
        \cup [ct : {"Button"}, v : {""}, aid : {"IsLevelVisibleButton", "ExpandButton"},
              raises : {FALSE}]
        \cup [ct : {"Edit"}, v : {"1"}, aid : {""}, raises : {TRUE}]

\* the items of a tree; an item that is not asked for its children has none
TreeItems ==
    [text : {LevelText}, children_raises : {FALSE}, children : SeqsUpTo(Fields, MaxFields)]
        \cup [text : {LevelText, OtherText}, children_raises : {TRUE}, children : {<<>>}]
        \cup [text : {OtherText}, children_raises : {FALSE}, children : {<<>>}]

RECURSIVE FieldCount(_)
FieldCount(items) ==
    IF items = <<>> THEN 0 ELSE Len(Head(items).children) + FieldCount(Tail(items))

Trees == {items \in SeqsUpTo(TreeItems, MaxItems) : FieldCount(items) <= MaxFields}

\* the loop of lines 198-212 over the children of one item: number, name
\* and vis_btn (the child's position, 0 for None) after the first k children
Extracted(children) ==
    LET F[k \in 0..Len(children)] ==
            IF k = 0 THEN [number |-> "", name |-> "", vis_btn |-> 0]
            ELSE LET child == children[k]
                     e     == F[k-1]
                 IN  IF child.raises THEN e
                     ELSE IF child.ct = "Edit"
                     THEN IF child.v # "" /\ IsDigit(child.v) /\ e.number = ""
                          THEN [e EXCEPT !.number = child.v]
                          ELSE IF child.v # "" /\ ~IsDigit(child.v)
                          THEN [e EXCEPT !.name = child.v]
                          ELSE e
                     ELSE IF child.ct = "Button" /\ child.aid = "IsLevelVisibleButton"
                     THEN [e EXCEPT !.vis_btn = k]
                     ELSE e
    IN  F[Len(children)]

\* as Recorded, but an item without the visibility button is left out
RecordedWithButton(item) ==
    /\ item.text = LevelText
    /\ ~item.children_raises
    /\ Extracted(item.children).number # ""
    /\ Extracted(item.children).vis_btn # 0

\* whether the loop of lines 189-224 appends a level for the item
Recorded(item) ==
    /\ item.text = LevelText
    /\ ~item.children_raises
    /\ Extracted(item.children).number # ""

\* scan_levels(tree) on the items tree.children() returns: the list of
\* level dicts, "item" being the item's position in the tree
scan_levels(items) ==
    LET F[i \in 0..Len(items)] ==
            IF i = 0 THEN <<>>
            ELSE IF Recorded(items[i])
            THEN LET e == Extracted(items[i].children)
                 IN  Append(F[i-1],
                            [number |-> e.number,
                             name |-> IF e.name # "" THEN e.name
                                      ELSE DefaultName(e.number),
                             item |-> i,
                             vis_btn |-> e.vis_btn])
            ELSE F[i-1]
    IN  F[Len(items)]

InitScan ==
    /\ call \in [items : Trees, levels : {<<>>}]
    /\ selection = {}
    /\ pc = "start"
    /\ levels = <<>>
    /\ hotkeys = <<>>
    /\ groups = <<>>
    /\ settings = Saved(<<>>, <<>>)
    /\ old_levels = <<>>
    /\ remap = <<>>
    /\ ret = 0
    /\ pre = [hotkeys |-> <<>>, groups |-> <<>>, settings |-> Saved(<<>>, <<>>)]
    /\ once = [hotkeys |-> <<>>, groups |-> <<>>]
    /\ tree = FALSE
    /\ treeview = <<>>
    /\ status = "info"
    /\ scans = 0
    /\ Started

ScanCall ==
    /\ pc = "start"
    /\ call' = [call EXCEPT !.levels = scan_levels(call.items)]
    /\ pc' = "returned"
    /\ ConnectFrame

NextScan == ScanCall

SpecScan == InitScan /\ [][NextScan]_vars

\* an item is a level item, its children can be read, and one of them is
\* a readable text field of digits
HasNumber(item) ==
    /\ item.text = LevelText
    /\ ~item.children_raises
    /\ \E k \in 1..Len(item.children) :
          LET child == item.children[k]
          IN  ~child.raises /\ child.ct = "Edit" /\ IsDigit(child.v)

\* C26: the result of scan_levels holds one level for each item that is a
\* level item with a numeric field, in the order of the tree: the items of
\* the levels are exactly those items, ascending by position; other items
\* and level items without a numeric field give no level; a level item with
\* a number and no visibility button is recorded with no control handle.
C26_OneLevelPerItem ==
    pc = "returned" =>
        /\ [k \in 1..Len(call.levels) |-> call.levels[k].item]
              = SelectSeq([i \in 1..Len(call.items) |-> i],
                          LAMBDA i : HasNumber(call.items[i]))
        /\ \A k \in 1..Len(call.levels) :
              LET item == call.items[call.levels[k].item]
              IN  call.levels[k].vis_btn = 0 <=>
                      ~\E c \in 1..Len(item.children) :
                          /\ ~item.children[c].raises
                          /\ item.children[c].ct = "Button"
                          /\ item.children[c].aid = "IsLevelVisibleButton"

\* two levels out of order by number, the first without a button, after a
\* skipped item
C26_Witness ==
    /\ pc = "returned"
    /\ Len(call.items) = 2
    /\ Len(call.levels) = 2
    /\ call.levels[1].number = "2" /\ call.levels[2].number = "1"
    /\ call.levels[1].vis_btn = 0 /\ call.levels[2].vis_btn # 0

\* the first readable field of digits among the children, "" for none
FirstNumber(children) ==
    LET hits == {k \in 1..Len(children) :
                    ~children[k].raises /\ children[k].ct = "Edit" /\ IsDigit(children[k].v)}
    IN  IF hits = {} THEN 0 ELSE CHOOSE k \in hits : \A h \in hits : k <= h

\* the first readable non-numeric text after position k, 0 for none
FollowingText(children, k) ==
    LET hits == {j \in (k+1)..Len(children) :
                    /\ ~children[j].raises /\ children[j].ct = "Edit"
                    /\ children[j].v # "" /\ ~IsDigit(children[j].v)}
    IN  IF hits = {} THEN 0 ELSE CHOOSE j \in hits : \A h \in hits : j <= h

\* C27: each level's number is the first all-digit text among its item's
\* children, and its name is the first non-numeric text after that number
\* whenever there is one, whatever non-numeric texts stand before the
\* number or after the name.
C27_NameFollowsNumber ==
    pc = "returned" =>
        \A k \in 1..Len(call.levels) :
            LET children == call.items[call.levels[k].item].children
                n        == FirstNumber(children)
                t        == FollowingText(children, n)
            IN  /\ n # 0 /\ call.levels[k].number = children[n].v
                /\ t # 0 => call.levels[k].name = children[t].v

----------------------------------------------------------------------------
(* The health check alone: connects, checks, probes and the rescans they
   start, the host's answer to the last probe kept in call *)

NextCheck ==
    \/ \E scan \in HostScans(AppNums, AppNames, MaxLevels) : ConnectSlow(scan)
    \/ HealthCheck
    \/ ProbeSeen
    \/ OnResult
    \/ WorkerStep
    \/ UpdateUi

SpecCheck == InitHealth /\ [][NextCheck]_vars

\* the probed item answered with its visibility button
ButtonPresent(answer) ==
    /\ ~answer.children_raises
    /\ \E i \in 1..Len(answer.children) :
          answer.children[i].ct = "Button" /\ answer.children[i].aid = "IsLevelVisibleButton"

\* the main loop runs _on_result
ResultStep == afterq # <<>> /\ Head(afterq).cb = "on_result" /\ afterq' = Tail(afterq)

\* C28: a probe is started only with levels cached and no rescan running,
\* one at a time, and starts no rescan itself; the probe reports fresh
\* exactly when the item answered with its visibility button; a fresh
\* result leaves levels, hotkeys and groups alone and starts no rescan; a
\* stale result starts the rescan thread unless a rescan is running; and a
\* rescan is started by nothing but a stale result.
C28_ProbeThenRescan ==
    [][/\ probing' > probing =>
            /\ levels # <<>> /\ ~rescanning
            /\ probing' = probing + 1
            /\ UNCHANGED <<levels, hotkeys, groups, rescanning, pc>>
       /\ probing' < probing =>
            /\ Posted = <<OnResultCb(ButtonPresent(call'))>>
            /\ UNCHANGED <<levels, hotkeys, groups, rescanning, pc>>
       /\ ResultStep =>
            IF Head(afterq).flag \/ rescanning
            THEN UNCHANGED <<levels, hotkeys, groups, rescanning, pc>>
            ELSE /\ rescanning' /\ pc = "idle" /\ pc' = "read"
                 /\ UNCHANGED <<levels, hotkeys, groups>>
       /\ (rescanning' /\ ~rescanning) => (ResultStep /\ ~Head(afterq).flag)
      ]_vars

\* the item answered with a button that is not the visibility button, and
\* the rescan thread was started
C28_Witness ==
    /\ call \in ProbeAnswers
    /\ call.children = <<[ct |-> "Button", aid |-> "other", invoke |-> "ok"]>>
    /\ ~call.children_raises
    /\ rescanning /\ pc = "read"
    /\ probing = 0 /\ afterq = <<>>

----------------------------------------------------------------------------
(* The held flags of the router, next to hotkey recording *)

\* the keys pressed and released while the global listener runs
HeldKeys == {KeyCode("a", 65), KeyOf("ctrl_l"), KeyOf("shift")}

NextHeld ==
    \/ \E scan \in HostScans(AppNums, AppNames, MaxGroupLevels) : ConnectSlow(scan)
    \/ OnSetHotkey
    \/ OnRecPress
    \/ FinishRecording
    \/ CancelRecording
    \/ \E key \in HeldKeys : PressBegin(key)
    \/ PressGroups
    \/ PressHotkeys
    \/ \E key \in HeldKeys : Release(key)

SpecHeld == InitHealth /\ [][NextHeld]_vars

\* C29: the held flags change only in a press or a release of a modifier
\* key: a press or a release of another key leaves them as they are, the
\* press of a ctrl, alt or shift key adds that key's flag and no other, and
\* its release removes that flag and no other.
C29_HeldFlagsFrame ==
    [][/\ \A key \in HeldKeys :
            /\ ((PressBegin(key) \/ Release(key)) /\ ~_is_modifier(key)) =>
                  UNCHANGED held
            /\ (PressBegin(key) /\ _is_ctrl(key)) => held' = held \cup {"ctrl"}
            /\ (PressBegin(key) /\ _is_alt(key)) => held' = held \cup {"alt"}
            /\ (PressBegin(key) /\ _is_shift(key)) => held' = held \cup {"shift"}
            /\ (Release(key) /\ _is_ctrl(key)) => held' = held \ {"ctrl"}
            /\ (Release(key) /\ _is_alt(key)) => held' = held \ {"alt"}
            /\ (Release(key) /\ _is_shift(key)) => held' = held \ {"shift"}
       /\ held' # held =>
            \E key \in HeldKeys :
                _is_modifier(key) /\ (PressBegin(key) \/ Release(key))
      ]_vars

----------------------------------------------------------------------------
(* Recording and matching the same key *)

\* the hotkey _on_rec_press hands to _finish_recording for the key of the
\* call, pressed with the modifiers of the call held
RecordedHotkey == [key |-> RecTrigger(call.key), modifiers |-> HeldMods]

\* C30: a hotkey as recording makes it from a key (a character key, a key
\* known by its code, or a named key such as f4 or space) and the
\* modifiers held is matched by hotkey_matches when that key is pressed
\* with the same modifiers held.
C30_RecordedHotkeyMatches ==
    (/\ pc = "returned"
     /\ ~_is_modifier(call.key) /\ call.key # KeyOf("esc")
     /\ RecTrigger(call.key) # ""
     /\ call.hk = RecordedHotkey) => call.result

----------------------------------------------------------------------------
(* The keyboard: keys go down and up, and whichever listener runs hears it *)

\* the keys of the keyboard that are used: a letter and both ctrl keys
KeyboardKeys == {KeyCode("a", 65), KeyOf("ctrl_l"), KeyOf("ctrl_r")}

\* everything but the keyboard
AppVars ==
    <<dataVars, funVars, workVars, uiVars, recVars, bgVars, call, selection, held,
      press, outcome>>

\* a key goes down: the global listener's on_press gets it when that
\* listener runs, else the recording listener's, else nobody
KeyDown(key) ==
    /\ key.name \notin down
    /\ down' = IF _is_modifier(key) THEN down \cup {key.name} ELSE down
    /\ IF listener THEN PressEvent(key)
       ELSE IF rec_threads > 0 THEN RecPressEvent(key)
       ELSE UNCHANGED AppVars

\* a modifier key goes up: the global listener's on_release gets it;
\* _on_rec_release does nothing
KeyUp(key) ==
    /\ key.name \in down
    /\ down' = down \ {key.name}
    /\ IF listener THEN ReleaseEvent(key) ELSE UNCHANGED AppVars

NextKeys ==
    \/ \E scan \in HostScans(AppNums, AppNames, MaxGroupLevels) : ConnectSlow(scan)
    \/ OnSetHotkey
    \/ FinishRecording
    \/ \E key \in KeyboardKeys : KeyDown(key)
    \/ \E key \in KeyboardKeys : KeyUp(key)
    \/ PressGroups
    \/ PressHotkeys

SpecKeys == InitHealth /\ [][NextKeys]_vars

\* the modifiers of which a key is down
DownFlags == UNION {FlagOf(KeyOf(name)) : name \in down}

\* C31: the hotkey handed to _finish_recording when the trigger key is
\* pressed names exactly the modifiers of which a key is down at that
\* moment.
C31_RecordedModsAreHeld ==
    [][\A i \in 1..Len(Posted) :
           Posted[i].cb = "finish" => Posted[i].hk.modifiers = DownFlags']_vars

\* C32: while the global listener runs, the held flags are exactly the
\* modifiers of which a key is down.
C32_HeldFlagsMatchKeyboard == listener => held = DownFlags

----------------------------------------------------------------------------
(* The retry after a rescan that renumbered levels *)

\* a level number as the last reconciliation renumbered it
NewNumber(n) == IF Has(remap, n) THEN Get(remap, n) ELSE n

\* a request with its numbers as the last reconciliation renumbered them
Renumbered(req) ==
    [req EXCEPT !.num = IF req.num = 0 THEN 0 ELSE NewNumber(req.num),
                !.nums = [i \in 1..Len(req.nums) |-> NewNumber(req.nums[i])]]

\* the main loop runs _finish and the tree view could be filled
RetryStep ==
    /\ afterq # <<>> /\ Head(afterq).cb = "retry" /\ afterq' = Tail(afterq)
    /\ Populate(groups, levels).ok

\* C33: the retry that follows an auto-rescan toggles the levels of the
\* original request under the numbers the rescan's reconciliation gave
\* them.
C33_RetryFollowsRenumbering ==
    [][(RetryStep /\ pc = "idle") =>
           outcome'.req = Renumbered(Head(afterq).req)]_vars

----------------------------------------------------------------------------
(* One toggle for each level of a request *)

\* the distinct levels a request names
RequestLevels(req) == IF req.num # 0 THEN {req.num} ELSE Range(req.nums)

\* C39: a toggle request, from a key press, from the retry after a rescan
\* or from the Toggle button, invokes the visibility button of no level
\* twice: the toggles it made are no more than the distinct levels it names.
C39_EachLevelToggledOnce ==
    outcome.by # "none" => outcome.toggled <= Cardinality(RequestLevels(outcome.req))

----------------------------------------------------------------------------
(* A rescan that fails *)

\* C34: the steps of a rescan whose scan raises or finds nothing (reading
\* the old levels, the scan, the return of failure) leave the level list,
\* the hotkeys, the groups and the settings file as they are, and failure
\* is what the rescan reports.
C34_FailedRescanChangesNothing ==
    [][/\ (pc = "read" /\ pc' = "scan") => UNCHANGED dataVars
       /\ (pc = "scan" /\ pc' = "finally") =>
             UNCHANGED dataVars /\ ~wk'.success
       /\ (pc = "finally" /\ ~wk.success /\ pc' = "idle") =>
             /\ UNCHANGED dataVars
             /\ ~wk'.posting[Len(wk'.posting)].success
      ]_vars

\* the scan of a rescan found nothing while levels and a hotkey are held
C34_Witness ==
    /\ pc = "idle"
    /\ wk.posting # <<>> /\ ~wk.posting[1].success
    /\ levels # <<>> /\ hotkeys # <<>>
    /\ settings = Saved(hotkeys, groups)

----------------------------------------------------------------------------
(* One rescan at a time *)

\* the owner thread scans and reconciles: Connect or Refresh
ConnectScans == scans' # scans /\ pc' = pc

\* C35: while the rescan thread runs, no other rescan is made: the owner
\* thread does not scan and reconcile, and no second thread is started.
C35_OneRescanAtATime ==
    [][rescanning => (~ConnectScans /\ ~(pc # "read" /\ pc' = "read"))]_vars

----------------------------------------------------------------------------
(* The rescan guard is cleared *)

\* C36: whenever the rescan guard is set, it is cleared again later: the
\* rescan thread reaches its finally clause whether the scan succeeded,
\* found nothing or raised.
C36_GuardCleared == rescanning ~> ~rescanning

\* the guard is set and the thread is inside a scan that will find nothing
C36_Witness == rescanning /\ pc = "finally" /\ ~wk.success /\ wk.kind = "auto"

----------------------------------------------------------------------------
(* The health poll keeps running *)

\* C37: never more than one health-check timer is pending, and once a
\* health check has started a probe, a timer for the next health check is
\* set again later.
C37_PollKeepsRunning ==
    /\ [](timers <= 1)
    /\ (~health_poll_id /\ probing > 0) ~> health_poll_id

\* the user refreshed while a probe is in flight: one timer is pending and
\* the probe's result is yet to come
C37_Witness == health_poll_id /\ timers = 1 /\ probing > 0

----------------------------------------------------------------------------
(* The hotkey of the standalone script level_toggle.py *)

MaxParts == 3

\* the parts of --key between the '+' signs, as typed; none has blanks
\* around it, so strip() leaves them
KeyParts == {"ctrl", "Ctrl", "alt", "shift", "a", "f4"}

KeyStrings == UNION {[1..n -> KeyParts] : n \in 1..MaxParts}

\* key_str.lower(), part by part
LowerPart(p) == IF p = "Ctrl" THEN "ctrl" ELSE Lower(p)

\* nothing parsed yet; "" and the key "none" stand for None
NothingParsed == [need_ctrl |-> FALSE, need_alt |-> FALSE, need_shift |-> FALSE,
                  trigger_char |-> "", trigger_fkey |-> KeyOf("none")]

\* parse_hotkey: the loop over the parts, a later trigger replaces an
\* earlier one of its kind
parse_hotkey(key_str) ==
    LET F[i \in 0..Len(key_str)] ==
            IF i = 0 THEN NothingParsed
            ELSE LET p == LowerPart(key_str[i])
                 IN  IF p \in {"ctrl", "control"} THEN [F[i-1] EXCEPT !.need_ctrl = TRUE]
                     ELSE IF p = "shift" THEN [F[i-1] EXCEPT !.need_shift = TRUE]
                     ELSE IF p = "alt" THEN [F[i-1] EXCEPT !.need_alt = TRUE]
                     ELSE IF p = "f4" THEN [F[i-1] EXCEPT !.trigger_fkey = KeyOf(p)]
                     ELSE [F[i-1] EXCEPT !.trigger_char = p]
    IN  F[Len(key_str)]

\* main.check_hotkey with the closure's variables as arguments
check_hotkey(parsed, key, ctrl_held, alt_held, shift_held) ==
    IF parsed.need_ctrl /\ ~ctrl_held THEN FALSE
    ELSE IF parsed.need_alt /\ ~alt_held THEN FALSE
    ELSE IF parsed.need_shift /\ ~shift_held THEN FALSE
    ELSE IF parsed.trigger_fkey # KeyOf("none") THEN key = parsed.trigger_fkey
    ELSE IF parsed.trigger_char = "" THEN FALSE
    ELSE IF key.cls = "KeyCode" /\ key.char # ""
         THEN Lower(key.char) = parsed.trigger_char
    ELSE IF key.cls = "KeyCode" /\ key.vk # 0
         THEN key.vk = Ord(Upper(parsed.trigger_char))
    ELSE FALSE

InitScript ==
    /\ call \in [key_str : KeyStrings, key : PressedKeys, ctrl_held : BOOLEAN,
                 alt_held : BOOLEAN, shift_held : BOOLEAN, result : {FALSE}]
    /\ selection = {}
    /\ pc = "start"
    /\ levels = <<>>
    /\ hotkeys = <<>>
    /\ groups = <<>>
    /\ settings = Saved(<<>>, <<>>)
    /\ old_levels = <<>>
    /\ remap = <<>>
    /\ ret = 0
    /\ pre = [hotkeys |-> <<>>, groups |-> <<>>, settings |-> Saved(<<>>, <<>>)]
    /\ once = [hotkeys |-> <<>>, groups |-> <<>>]
    /\ tree = FALSE
    /\ treeview = <<>>
    /\ status = "info"
    /\ scans = 0
    /\ Started

\* on_press asks check_hotkey about the key just pressed
CheckHotkeyCall ==
    /\ pc = "start"
    /\ call' = [call EXCEPT !.result =
                   check_hotkey(parse_hotkey(call.key_str), call.key, call.ctrl_held,
                                call.alt_held, call.shift_held)]
    /\ pc' = "returned"
    /\ UNCHANGED <<dataVars, funVars, old_levels, remap, wk, uiVars, recVars, bgVars,
                   selection, routerVars>>

NextScript == CheckHotkeyCall

SpecScript == InitScript /\ [][NextScript]_vars

\* the modifiers the configured hotkey names
NeededMods ==
    LET parsed == parse_hotkey(call.key_str)
    IN  {m \in Mods : \/ m = "ctrl" /\ parsed.need_ctrl
                      \/ m = "alt" /\ parsed.need_alt
                      \/ m = "shift" /\ parsed.need_shift}

\* C40: check_hotkey of the script returns true only when the modifiers held
\* are exactly the modifiers of the configured hotkey: with a modifier held
\* that the hotkey does not name it returns false.
C40_ScriptExactModifiers ==
    (pc = "returned" /\ call.result) => NeededMods = HeldMods

=============================================================================
